---- MODULE Spec2Model ----
(***************************************************************************)
(* Verification model of the subagent orchestration core.                  *)
(*                                                                         *)
(*  - SubagentManager  (src/src/agents/subagent-manager.ts): the three     *)
(*    maps running / completed / reserved, admission control, the cleanup  *)
(*    timer and the restart synchronisation.  Specification: SpecManager.  *)
(*  - Typing controller (src/src/auto-reply/reply/typing.ts): the          *)
(*    closure state of createTypingController, its timers and the          *)
(*    asynchronous calls suspended at an await.  Specification: SpecTyping.*)
(*                                                                         *)
(* Strings that the code normalises (session keys) are sequences of        *)
(* one-character strings, so that String.prototype.trim is computed.       *)
(* Payload fields that no branch of the code reads (task, label,           *)
(* childSessionKey, model, startedAt, summary) are left out of the records.*)
(***************************************************************************)
EXTENDS Integers, Sequences, FiniteSets, TLC

(***************************************************************************)
(* Program constants.                                                      *)
(***************************************************************************)
MAX_CONCURRENT_SUBAGENTS == 5
MAX_RETAINED_SUBAGENTS == 15
RESERVATION_TTL_MS == 30000
CLEANUP_INTERVAL_MS == 60000
SUGGESTION_COUNT == 3

(***************************************************************************)
(* Bounds of the model.                                                    *)
(***************************************************************************)
\* reserveSlot mints at most this many reserveIds in one behaviour
MaxReserveIds == 1
\* the clock advances at most this many steps
MaxTicks == 1
\* Date.now() at construction of the manager
BootTimeMs == 100000

\* One step of the clock: the interval of the cleanup timer, twice the
\* reservation TTL.  The timer finds reservations of age 0 (made just before
\* it runs) and of one or more whole intervals.
ClockStepMs == CLEANUP_INTERVAL_MS

VARIABLES
    \* ---- SubagentManager ----
    running,        \* Map<runId, SubagentContext>
    completed,      \* Map<runId, SubagentResult>, in insertion order
    reserved,       \* Map<reserveId, {requesterSessionKey, reservedAt}>
    nextReserveId,  \* crypto.randomUUID(): the next id never handed out before
    now,            \* Date.now()
    nextCleanupAt,  \* when the setInterval of startCleanupTimer fires next
    restored,       \* the durable registry has been loaded
    ret,            \* the last operation and what it returned
    effects,        \* events emitted / heartbeats requested by the last operation
    awaitingCompleted  \* the agent-event bus: the runIds whose last published
                       \* lifecycle event is `spawned`

mgrVars == <<running, completed, reserved, nextReserveId, now, nextCleanupAt,
             restored, ret, effects, awaitingCompleted>>

VARIABLES
    \* ---- typing controller (createTypingController) ----
    params,         \* the arguments of createTypingController, defaults applied
    started,
    active,
    runComplete,
    dispatchIdle,
    typingStartedAt,            \* TRUE: holds a timestamp; FALSE: undefined
    typingTimeoutReminderTimer, \* TRUE: holds the live reminder interval
    sealed,
    typingTimer,    \* TRUE: holds a live interval made by startTypingLoop
    typingTtlTimer, \* TRUE: holds a timeout handle
    ttlPending,     \* the timeout that typingTtlTimer holds has yet to fire
    orphanTimers,   \* live intervals of startTypingLoop that no variable holds
    awaiting,       \* startTypingLoop calls suspended at `await ensureStart()`
    markedRun,      \* markRunComplete has been called
    markedIdle,     \* markDispatchIdle has been called
    call,           \* the last call or timer callback, and sealed at its entry
    fired           \* the external callbacks the last step invoked

typingVars == <<params, started, active, runComplete, dispatchIdle,
                typingStartedAt, typingTimeoutReminderTimer, sealed, typingTimer,
                typingTtlTimer, ttlPending, orphanTimers, awaiting, markedRun,
                markedIdle, call, fired>>

VARIABLES
    \* ---- per-backend run queue (enqueueCliRun) ----
    CLI_RUN_QUEUE,  \* Map<queueKey, Promise>: the task whose `tracked` it holds
    cliRuns,        \* the enqueueCliRun calls so far, in call order
    unhandled       \* rejected promises that no handler was attached to

queueVars == <<CLI_RUN_QUEUE, cliRuns, unhandled>>

VARIABLES
    \* ---- pending interactions (interaction manager) ----
    pendingInteractions,  \* Map<sessionKey, PendingInteraction>
    cleanupTimer,         \* TRUE: holds the live cleanup interval
    clock,                \* Date.now() of the interaction manager
    nextInteractionId,    \* crypto.randomUUID(): the next id never used before
    got                   \* the last operation and what it returned

interactionVars == <<pendingInteractions, cleanupTimer, clock, nextInteractionId,
                     got>>

VARIABLES
    \* ---- stream-jsonl parser: detectPendingInteraction ----
    toolUses,            \* CliToolUseEvent[]
    toolResults,         \* CliToolResultEvent[]
    pendingInteraction,  \* what detectPendingInteraction returned, if called
    \* ---- sandbox command: buildCliSandboxCommand ----
    cliArgv,             \* [params.command, ...params.args]
    cliCommand,          \* the command string handed to buildDockerExecArgs
    \* ---- parseUserAnswer ----
    answerInput,         \* userMessage, options, multiSelect
    answers              \* the results of parseUserAnswer applied once, twice

parserVars == <<toolUses, toolResults, pendingInteraction>>

quoteVars == <<cliArgv, cliCommand>>

answerVars == <<answerInput, answers>>

VARIABLES
    announceFlow,
    gatewayCalls,
    announceQueue,
    steeredMessages,
    randomUUID

announceVars == <<announceFlow, gatewayCalls, announceQueue, steeredMessages,
                  randomUUID>>

VARIABLES
    streamSource,
    streamOutput

streamVars == <<streamSource, streamOutput>>

VARIABLES
    cliAgentRun,
    execCalls

runnerVars == <<cliAgentRun, execCalls>>

VARIABLES
    parsedOutput,       \* the output of parseCliStreamJsonl for the run
    writeCall,          \* the stream-jsonl branch and its writeCliEventsToSession call
    sessionFileExists,  \* fs.existsSync(sessionFile)
    appendedMessages,   \* the messages appended through sessionManager.appendMessage
    transcriptUpdates   \* the emitSessionTranscriptUpdate calls

writerVars == <<parsedOutput, writeCall, sessionFileExists, appendedMessages,
                transcriptUpdates>>

vars == <<mgrVars, typingVars, queueVars, interactionVars, parserVars,
          quoteVars, answerVars, announceVars, streamVars, runnerVars,
          writerVars>>

\* what a step of one component leaves alone
notMgrVars == <<typingVars, queueVars, interactionVars, parserVars,
                quoteVars, answerVars, announceVars, streamVars, runnerVars,
                writerVars>>

notTypingVars == <<mgrVars, queueVars, interactionVars, parserVars,
                   quoteVars, answerVars, announceVars, streamVars,
                   runnerVars, writerVars>>

notQueueVars == <<mgrVars, typingVars, interactionVars, parserVars,
                  quoteVars, answerVars, announceVars, streamVars,
                  runnerVars, writerVars>>

notInteractionVars == <<mgrVars, typingVars, queueVars, parserVars,
                        quoteVars, answerVars, announceVars, streamVars,
                        runnerVars, writerVars>>

notParserVars == <<mgrVars, typingVars, queueVars, interactionVars,
                   quoteVars, answerVars, announceVars, streamVars,
                   runnerVars, writerVars>>

notQuoteVars == <<mgrVars, typingVars, queueVars, interactionVars,
                  parserVars, answerVars, announceVars, streamVars,
                  runnerVars, writerVars>>

notAnswerVars == <<mgrVars, typingVars, queueVars, interactionVars,
                   parserVars, quoteVars, announceVars, streamVars,
                   runnerVars, writerVars>>

notAnnounceVars == <<mgrVars, typingVars, queueVars, interactionVars,
                     parserVars, quoteVars, answerVars, streamVars,
                     runnerVars, writerVars>>

notStreamVars == <<mgrVars, typingVars, queueVars, interactionVars,
                   parserVars, quoteVars, answerVars, announceVars,
                   runnerVars, writerVars>>

notRunnerVars == <<mgrVars, typingVars, queueVars, interactionVars,
                   parserVars, quoteVars, answerVars, announceVars,
                   streamVars, writerVars>>

notWriterVars == <<mgrVars, typingVars, queueVars, interactionVars,
                   parserVars, quoteVars, answerVars, announceVars,
                   streamVars, runnerVars>>

(***************************************************************************)
(* Strings.                                                                *)
(***************************************************************************)
RECURSIVE TrimStart(_)
TrimStart(s) ==
    IF s # <<>> /\ Head(s) = " " THEN TrimStart(Tail(s)) ELSE s

RECURSIVE TrimEnd(_)
TrimEnd(s) ==
    IF s # <<>> /\ s[Len(s)] = " " THEN TrimEnd(SubSeq(s, 1, Len(s) - 1)) ELSE s

\* String.prototype.trim
Trim(s) == TrimEnd(TrimStart(s))

\* the session keys callers pass: an empty key, two sessions, and a key with
\* surrounding white space
SessionKeys == { <<>>, <<"s">>, <<"t">>, <<" ", "s">> }

(***************************************************************************)
(* Map helpers.  running and reserved are functions (their iteration order *)
(* is read by no operation modelled here); completed keeps Map insertion   *)
(* order, which decides ties in toSorted.                                  *)
(***************************************************************************)
MapSet(m, k, v) == [x \in (DOMAIN m) \cup {k} |-> IF x = k THEN v ELSE m[x]]

MapDelete(m, k) == [x \in (DOMAIN m) \ {k} |-> m[x]]

EmptyMap == [x \in {} |-> 0]

CompletedIds(c) == { c[i].runId : i \in 1..Len(c) }

CompletedHas(c, runId) == runId \in CompletedIds(c)

CompletedGet(c, runId) == c[CHOOSE i \in 1..Len(c) : c[i].runId = runId]

\* Map.set: an existing key keeps its place, a new key goes last
CompletedSet(c, rec) ==
    IF CompletedHas(c, rec.runId)
    THEN [i \in 1..Len(c) |-> IF c[i].runId = rec.runId THEN rec ELSE c[i]]
    ELSE Append(c, rec)

CompletedDelete(c, runId) ==
    LET Keep(r) == r.runId # runId IN SelectSeq(c, Keep)

(***************************************************************************)
(* Counting (getActiveCountForSession, getTotalCountForSession).           *)
(***************************************************************************)
RunningCount(st, key) ==
    Cardinality({ r \in DOMAIN st.running : st.running[r].requesterSessionKey = key })

ReservedCount(st, key) ==
    Cardinality({ r \in DOMAIN st.reserved : st.reserved[r].requesterSessionKey = key })

CompletedCount(st, key) ==
    Cardinality({ i \in 1..Len(st.completed) : st.completed[i].requesterSessionKey = key })

getActiveCountForSession(st, requesterSessionKey) ==
    LET key == Trim(requesterSessionKey)
    IN  IF key = <<>> THEN 0
        ELSE RunningCount(st, key) + ReservedCount(st, key)

getTotalCountForSession(st, requesterSessionKey) ==
    LET key == Trim(requesterSessionKey)
    IN  IF key = <<>> THEN 0
        ELSE RunningCount(st, key) + CompletedCount(st, key) + ReservedCount(st, key)

\* getPendingNotifications: the completed results of the session that are
\* not notified, in map order
getPendingNotifications(st, requesterSessionKey) ==
    LET key == Trim(requesterSessionKey)
        Pending(r) == r.requesterSessionKey = key /\ ~ r.notified
    IN  IF key = <<>> THEN <<>> ELSE SelectSeq(st.completed, Pending)

(***************************************************************************)
(* getSuggestionsForRemoval: filter, stable sort by completedAt, first     *)
(* three, runIds.                                                          *)
(***************************************************************************)
RECURSIVE InsertByCompletedAt(_, _)
InsertByCompletedAt(sorted, r) ==
    IF sorted = <<>> THEN <<r>>
    ELSE IF r.completedAt < Head(sorted).completedAt THEN <<r>> \o sorted
    ELSE <<Head(sorted)>> \o InsertByCompletedAt(Tail(sorted), r)

\* Array.prototype.toSorted((a, b) => a.completedAt - b.completedAt): stable
ToSortedByCompletedAt(s) ==
    LET F[i \in 0..Len(s)] ==
            IF i = 0 THEN <<>> ELSE InsertByCompletedAt(F[i - 1], s[i])
    IN  F[Len(s)]

Slice(s, n) == SubSeq(s, 1, IF Len(s) < n THEN Len(s) ELSE n)

getSuggestionsForRemoval(st, requesterSessionKey) ==
    LET key == Trim(requesterSessionKey)
        Mine(r) == r.requesterSessionKey = key
        first == Slice(ToSortedByCompletedAt(SelectSeq(st.completed, Mine)),
                       SUGGESTION_COUNT)
    IN  IF key = <<>> THEN <<>>
        ELSE [i \in 1..Len(first) |-> first[i].runId]

(***************************************************************************)
(* The manager's operations as functions of the manager state              *)
(*   st = [running, completed, reserved, effects]                          *)
(* so that syncFromRecord can call markCompleted and register, and the     *)
(* registry's restore loop can call syncFromRecord once per record.        *)
(***************************************************************************)
MgrState ==
    [running |-> running, completed |-> completed, reserved |-> reserved,
     effects |-> <<>>]

\* register(context) is called without a reserveId; "" is falsy as well
NoReserveId == 0

\* the outcome the lifecycle listener reports (a restored record has "error")
Outcomes == {"ok"}

\* emitAgentEvent({stream: "subagent", data: {type, ...}}), requestHeartbeatNow
Event(type, runId) == [type |-> type, runId |-> runId]

\* A variant of cleanupExpiredReservations that evicts by age from completed
\* as well, as the retention timer of an earlier SubagentManager did.
cleanupExpiredEntries(st, t) ==
    LET Fresh(r) == ~ (t - r.completedAt > RESERVATION_TTL_MS)
    IN  [st EXCEPT
            !.reserved =
                [r \in { x \in DOMAIN st.reserved :
                            ~ (t - st.reserved[x].reservedAt > RESERVATION_TTL_MS) }
                    |-> st.reserved[r]],
            !.completed = SelectSeq(@, Fresh)]

\* cleanupExpiredReservations, run by the interval timer
cleanupExpiredReservations(st, t) ==
    [st EXCEPT !.reserved =
        [r \in { x \in DOMAIN st.reserved :
                    ~ (t - st.reserved[x].reservedAt > RESERVATION_TTL_MS) }
            |-> st.reserved[r]]]

\* A variant of reserveSlotResult that checks the capacity limit first.
reserveSlotResultCapacityFirst(st, requesterSessionKey) ==
    IF getTotalCountForSession(st, requesterSessionKey) >= MAX_RETAINED_SUBAGENTS
    THEN [allowed |-> FALSE, reason |-> "capacity",
          hasSuggestions |-> TRUE,
          suggestions |-> getSuggestionsForRemoval(st, requesterSessionKey)]
    ELSE IF getActiveCountForSession(st, requesterSessionKey) >= MAX_CONCURRENT_SUBAGENTS
    THEN [allowed |-> FALSE, reason |-> "concurrency",
          hasSuggestions |-> FALSE, suggestions |-> <<>>]
    ELSE [allowed |-> TRUE, reason |-> "",
          hasSuggestions |-> FALSE, suggestions |-> <<>>]

\* the outcome of reserveSlot on st, before the reservation is stored
reserveSlotResult(st, requesterSessionKey) ==
    IF getActiveCountForSession(st, requesterSessionKey) >= MAX_CONCURRENT_SUBAGENTS
    THEN [allowed |-> FALSE, reason |-> "concurrency",
          hasSuggestions |-> FALSE, suggestions |-> <<>>]
    ELSE IF getTotalCountForSession(st, requesterSessionKey) >= MAX_RETAINED_SUBAGENTS
    THEN [allowed |-> FALSE, reason |-> "capacity",
          hasSuggestions |-> TRUE,
          suggestions |-> getSuggestionsForRemoval(st, requesterSessionKey)]
    ELSE [allowed |-> TRUE, reason |-> "",
          hasSuggestions |-> FALSE, suggestions |-> <<>>]

releaseSlot(st, reserveId) ==
    [st EXCEPT !.reserved = MapDelete(@, reserveId)]

\* A variant of register that publishes no event.
registerUnannounced(st, context, reserveId) ==
    [st EXCEPT
        !.reserved = IF reserveId # NoReserveId THEN MapDelete(@, reserveId) ELSE @,
        !.running = MapSet(@, context.runId, context)]

register(st, context, reserveId) ==
    [st EXCEPT
        !.reserved = IF reserveId # NoReserveId THEN MapDelete(@, reserveId) ELSE @,
        !.running = MapSet(@, context.runId, context),
        !.effects = Append(@, Event("spawned", context.runId))]

\* requestHeartbeatNow, then result.notified = true on the object that
\* markCompleted has just stored in completed
triggerMainAgentCallback(st, runId) ==
    [st EXCEPT
        !.effects = Append(@, Event("heartbeat", runId)),
        !.completed = [i \in 1..Len(@) |->
                          IF @[i].runId = runId
                          THEN [@[i] EXCEPT !.notified = TRUE] ELSE @[i]]]

\* A variant of markCompleted that wakes the main agent for unknown runs too.
markCompletedNotifiesUnknown(st, runId, outcome, endedAt, t) ==
    IF runId \notin DOMAIN st.running THEN triggerMainAgentCallback(st, runId)
    ELSE
        LET context == st.running[runId]
            result == [runId |-> context.runId,
                       requesterSessionKey |-> context.requesterSessionKey,
                       endedAt |-> IF endedAt = 0 THEN t ELSE endedAt,
                       outcome |-> outcome,
                       notified |-> FALSE,
                       completedAt |-> t]
            moved == [st EXCEPT
                        !.running = MapDelete(@, runId),
                        !.completed = CompletedSet(@, result),
                        !.effects = Append(@, Event("completed", runId))]
        IN  triggerMainAgentCallback(moved, runId)

\* endedAt = 0 stands for a call without endedAt
markCompleted(st, runId, outcome, endedAt, t) ==
    IF runId \notin DOMAIN st.running THEN st
    ELSE
        LET context == st.running[runId]
            result == [runId |-> context.runId,
                       requesterSessionKey |-> context.requesterSessionKey,
                       endedAt |-> IF endedAt = 0 THEN t ELSE endedAt,
                       outcome |-> outcome,
                       notified |-> FALSE,
                       completedAt |-> t]
            moved == [st EXCEPT
                        !.running = MapDelete(@, runId),
                        !.completed = CompletedSet(@, result),
                        !.effects = Append(@, Event("completed", runId))]
        IN  triggerMainAgentCallback(moved, runId)

\* A variant of removeSubagentResult that does not compare the owner.
removeSubagentResultAnyOwner(st, runId, requesterSessionKey) ==
    IF runId \in DOMAIN st.running THEN [success |-> FALSE, reason |-> "running"]
    ELSE IF ~ CompletedHas(st.completed, runId)
    THEN [success |-> FALSE, reason |-> "not found"]
    ELSE [success |-> TRUE, reason |-> ""]

removeSubagentResult(st, runId, requesterSessionKey) ==
    LET key == Trim(requesterSessionKey)
    IN  IF runId \in DOMAIN st.running THEN [success |-> FALSE, reason |-> "running"]
        ELSE IF ~ CompletedHas(st.completed, runId)
        THEN [success |-> FALSE, reason |-> "not found"]
        ELSE IF CompletedGet(st.completed, runId).requesterSessionKey # key
        THEN [success |-> FALSE, reason |-> "permission denied"]
        ELSE [success |-> TRUE, reason |-> ""]

removeSubagent(st, runId, requesterSessionKey) ==
    IF removeSubagentResult(st, runId, requesterSessionKey).success
    THEN [st EXCEPT !.completed = CompletedDelete(@, runId)]
    ELSE st

\* A variant of syncFromRecord that registers a record still running
\* whenever its runId is not in running, without looking at completed.
syncFromRecordIgnoresCompleted(st, record, t) ==
    IF record.endedAt # 0 /\ record.outcome # "none"
    THEN IF record.runId \in DOMAIN st.running
         THEN markCompleted(st, record.runId, record.outcome, record.endedAt, t)
         ELSE IF ~ CompletedHas(st.completed, record.runId)
         THEN [st EXCEPT !.completed =
                  CompletedSet(@, [runId |-> record.runId,
                                   requesterSessionKey |-> record.requesterSessionKey,
                                   endedAt |-> record.endedAt,
                                   outcome |-> record.outcome,
                                   notified |-> TRUE,
                                   completedAt |-> record.endedAt])]
         ELSE st
    ELSE IF record.runId \notin DOMAIN st.running
         THEN register(st, [runId |-> record.runId,
                            requesterSessionKey |-> record.requesterSessionKey],
                       NoReserveId)
         ELSE st

\* A durable SubagentRunRecord: endedAt = 0 and outcome = "none" stand for
\* the fields being unset.
syncFromRecord(st, record, t) ==
    IF record.endedAt # 0 /\ record.outcome # "none"
    THEN IF record.runId \in DOMAIN st.running
         THEN markCompleted(st, record.runId, record.outcome, record.endedAt, t)
         ELSE IF ~ CompletedHas(st.completed, record.runId)
         THEN [st EXCEPT !.completed =
                  CompletedSet(@, [runId |-> record.runId,
                                   requesterSessionKey |-> record.requesterSessionKey,
                                   endedAt |-> record.endedAt,
                                   outcome |-> record.outcome,
                                   notified |-> TRUE,
                                   completedAt |-> record.endedAt])]
         ELSE st
    ELSE IF record.runId \notin DOMAIN st.running
            /\ ~ CompletedHas(st.completed, record.runId)
         THEN register(st, [runId |-> record.runId,
                            requesterSessionKey |-> record.requesterSessionKey],
                       NoReserveId)
         ELSE st

(***************************************************************************)
(* The durable registry file found at startup: twenty-two records.         *)
(* Runs 2..5 of session s and run 17 of session t are still running; runs  *)
(* 1 and 6..14 of session s have ended, with ties and without order in     *)
(* endedAt; run 15 (ended) belongs to session t, run 16 (ended) to a key   *)
(* stored with white space, and runs 18..22 (running) were spawned under   *)
(* an empty requester key.                                                 *)
(***************************************************************************)
RegistryRunIds == 1..22

RegistryStillRunning == {2, 3, 4, 5, 17} \cup 18..22

RegistryKey(i) ==
    IF i \in {15, 17} THEN <<"t">>
    ELSE IF i = 16 THEN <<" ", "s">>
    ELSE IF i \in 18..22 THEN <<>>
    ELSE <<"s">>

RegistryEndedAt(i) ==
    IF i \in RegistryStillRunning THEN 0
    ELSE IF i \in {15, 16} THEN BootTimeMs - 5000
    ELSE BootTimeMs - 1000 * (((i * 3) % 4) + 1)

RegistryFile ==
    [i \in RegistryRunIds |->
        [runId |-> i,
         requesterSessionKey |-> RegistryKey(i),
         endedAt |-> RegistryEndedAt(i),
         outcome |-> IF i \in RegistryStillRunning THEN "none" ELSE "ok"]]

\* restoreSubagentRunsOnce: syncFromRecord for every record of the file
restoreRuns(st, file, t) ==
    LET F[i \in 0..Len(file)] ==
            IF i = 0 THEN st ELSE syncFromRecord(F[i - 1], file[i], t)
    IN  F[Len(file)]

(***************************************************************************)
(* Inputs of the operations.                                               *)
(***************************************************************************)
\* the run that the lifecycle listener completes and that is synced again
\* (the registry file holds it as still running), and the runs that callers
\* register and try to remove: that one and a new one
ListenerRunIds == {2}

CallRunIds == {2, 30}

\* the contexts handed to register
Contexts ==
    [runId : CallRunIds, requesterSessionKey : { <<"s">> }]

\* the records handed to syncFromRecord one by one
SyncRecords ==
    { r \in [runId : ListenerRunIds, requesterSessionKey : { <<"s">> },
             endedAt : {0, BootTimeMs - 4500}, outcome : {"none", "error"}] :
        (r.endedAt = 0) = (r.outcome = "none") }

Ret(op, key, runId, reserveId, ok, reason, hasSuggestions, suggestions) ==
    [op |-> op, key |-> key, runId |-> runId, reserveId |-> reserveId,
     ok |-> ok, reason |-> reason, hasSuggestions |-> hasSuggestions,
     suggestions |-> suggestions]

(***************************************************************************)
(* The SubagentManager as a state machine.                                 *)
(***************************************************************************)
\* the state after `new SubagentManager()`
ManagerConstructed ==
    /\ running = EmptyMap
    /\ completed = <<>>
    /\ reserved = EmptyMap
    /\ nextReserveId = 1
    /\ now = BootTimeMs
    /\ nextCleanupAt = BootTimeMs + CLEANUP_INTERVAL_MS
    /\ restored = FALSE
    /\ ret = Ret("new", <<>>, 0, NoReserveId, TRUE, "", FALSE, <<>>)
    /\ effects = <<>>
    /\ awaitingCompleted = {}

\* the bus after the events of one operation, published in order
RECURSIVE publish(_, _)
publish(open, events) ==
    IF events = <<>> THEN open
    ELSE IF Head(events).type = "spawned"
    THEN publish(open \cup {Head(events).runId}, Tail(events))
    ELSE IF Head(events).type = "completed"
    THEN publish(open \ {Head(events).runId}, Tail(events))
    ELSE publish(open, Tail(events))

Commit(st) ==
    /\ running' = st.running
    /\ completed' = st.completed
    /\ reserved' = st.reserved
    /\ effects' = st.effects
    /\ awaitingCompleted' = publish(awaitingCompleted, st.effects)

\* the registry loads the durable file once, before any tool call
RestoreRuns ==
    /\ ~ restored
    /\ ret.op = "new"
    /\ restored' = TRUE
    /\ Commit(restoreRuns(MgrState, RegistryFile, now))
    /\ ret' = Ret("restore", <<>>, 0, NoReserveId, TRUE, "", FALSE, <<>>)
    /\ UNCHANGED <<nextReserveId, now, nextCleanupAt>>
    /\ UNCHANGED notMgrVars

ReserveSlot(requesterSessionKey) ==
    LET res == reserveSlotResult(MgrState, requesterSessionKey)
        reserveId == nextReserveId
    IN  /\ res.allowed => nextReserveId <= MaxReserveIds
        /\ IF res.allowed
           THEN /\ reserved' = MapSet(reserved, reserveId,
                                      [requesterSessionKey |-> Trim(requesterSessionKey),
                                       reservedAt |-> now])
                /\ nextReserveId' = nextReserveId + 1
                /\ ret' = Ret("reserveSlot", requesterSessionKey, 0, reserveId,
                              TRUE, "", FALSE, <<>>)
           ELSE /\ UNCHANGED <<reserved, nextReserveId>>
                /\ ret' = Ret("reserveSlot", requesterSessionKey, 0, NoReserveId,
                              FALSE, res.reason, res.hasSuggestions, res.suggestions)
        /\ effects' = <<>>
        /\ UNCHANGED <<running, completed, now, nextCleanupAt, restored,
                       awaitingCompleted>>
        /\ UNCHANGED notMgrVars

ReleaseSlot(reserveId) ==
    /\ Commit(releaseSlot(MgrState, reserveId))
    /\ ret' = Ret("releaseSlot", <<>>, 0, reserveId, TRUE, "", FALSE, <<>>)
    /\ UNCHANGED <<nextReserveId, now, nextCleanupAt, restored>>
    /\ UNCHANGED notMgrVars

Register(context, reserveId) ==
    /\ Commit(register(MgrState, context, reserveId))
    /\ ret' = Ret("register", context.requesterSessionKey, context.runId, reserveId,
                  TRUE, "", FALSE, <<>>)
    /\ UNCHANGED <<nextReserveId, now, nextCleanupAt, restored>>
    /\ UNCHANGED notMgrVars

MarkCompleted(runId, outcome) ==
    /\ Commit(markCompleted(MgrState, runId, outcome, 0, now))
    /\ ret' = Ret("markCompleted", <<>>, runId, NoReserveId, TRUE, outcome, FALSE, <<>>)
    /\ UNCHANGED <<nextReserveId, now, nextCleanupAt, restored>>
    /\ UNCHANGED notMgrVars

RemoveSubagent(runId, requesterSessionKey) ==
    LET res == removeSubagentResult(MgrState, runId, requesterSessionKey)
    IN  /\ Commit(removeSubagent(MgrState, runId, requesterSessionKey))
        /\ ret' = Ret("removeSubagent", requesterSessionKey, runId, NoReserveId,
                      res.success, res.reason, FALSE, <<>>)
        /\ UNCHANGED <<nextReserveId, now, nextCleanupAt, restored>>
        /\ UNCHANGED notMgrVars

SyncFromRecord(record) ==
    /\ Commit(syncFromRecord(MgrState, record, now))
    /\ ret' = Ret("syncFromRecord", record.requesterSessionKey, record.runId,
                  NoReserveId, TRUE, record.outcome, FALSE, <<>>)
    /\ UNCHANGED <<nextReserveId, now, nextCleanupAt, restored>>
    /\ UNCHANGED notMgrVars

\* time passes; the interval timer is not overrun
Tick ==
    /\ now + ClockStepMs <= BootTimeMs + MaxTicks * ClockStepMs
    /\ now + ClockStepMs <= nextCleanupAt
    /\ now' = now + ClockStepMs
    /\ ret' = Ret("tick", <<>>, 0, NoReserveId, TRUE, "", FALSE, <<>>)
    /\ effects' = <<>>
    /\ UNCHANGED <<running, completed, reserved, nextReserveId, nextCleanupAt,
                   restored, awaitingCompleted>>
    /\ UNCHANGED notMgrVars

\* the callback of setInterval(..., 60_000) in startCleanupTimer
CleanupTimerFires ==
    /\ now = nextCleanupAt
    /\ nextCleanupAt' = nextCleanupAt + CLEANUP_INTERVAL_MS
    /\ Commit(cleanupExpiredReservations(MgrState, now))
    /\ ret' = Ret("cleanupTimer", <<>>, 0, NoReserveId, TRUE, "", FALSE, <<>>)
    /\ UNCHANGED <<nextReserveId, now, restored>>
    /\ UNCHANGED notMgrVars

NextManager ==
    \/ RestoreRuns
    \/ \E k \in SessionKeys : ReserveSlot(k)
    \/ \E id \in 1..MaxReserveIds : ReleaseSlot(id)
    \/ \E c \in Contexts, id \in 0..MaxReserveIds : Register(c, id)
    \/ \E r \in ListenerRunIds, o \in Outcomes : MarkCompleted(r, o)
    \/ \E r \in CallRunIds, k \in SessionKeys : RemoveSubagent(r, k)
    \/ \E rec \in SyncRecords : SyncFromRecord(rec)
    \/ Tick
    \/ CleanupTimerFires

(***************************************************************************)
(* Properties of the SubagentManager.  A session is named by its trimmed   *)
(* key, as in every lookup of the code.                                    *)
(***************************************************************************)
ActiveOf(key) == RunningCount(MgrState, key) + ReservedCount(MgrState, key)

TotalOf(key) == ActiveOf(key) + CompletedCount(MgrState, key)

\* C1: for every requesterSessionKey, the running entries plus the
\* reservations of that key number at most MAX_CONCURRENT_SUBAGENTS, in every
\* reachable state.
C1_ConcurrencyCap ==
    \A key \in SessionKeys : ActiveOf(key) <= MAX_CONCURRENT_SUBAGENTS

\* C2: for every requesterSessionKey, the running plus completed plus
\* reserved entries of that key number at most MAX_RETAINED_SUBAGENTS, in
\* every reachable state.
C2_CapacityCap ==
    \A key \in SessionKeys : TotalOf(key) <= MAX_RETAINED_SUBAGENTS

\* what C3 says of a reserveSlot step, given when the call is to be allowed
AdmissionStep(key, allowedWhen) ==
    /\ ret'.ok <=> allowedWhen
    /\ ret'.ok =>
          /\ ret'.reserveId \notin DOMAIN reserved
          /\ ret'.reserveId >= nextReserveId
          /\ reserved' = MapSet(reserved, ret'.reserveId,
                                [requesterSessionKey |-> key, reservedAt |-> now])
          /\ UNCHANGED <<running, completed>>
    /\ ~ ret'.ok =>
          /\ UNCHANGED <<running, completed, reserved>>
          /\ (ActiveOf(key) >= MAX_CONCURRENT_SUBAGENTS) =>
                (ret'.reason = "concurrency" /\ ~ ret'.hasSuggestions)

C4_RegisterConsumesOrRejects ==
    [][ ret'.op = "register" =>
          \/ /\ ret'.reserveId \in DOMAIN reserved
             /\ reserved[ret'.reserveId].requesterSessionKey = ret'.key
             /\ reserved' = MapDelete(reserved, ret'.reserveId)
             /\ ret'.runId \in DOMAIN running'
          \/ UNCHANGED <<running, reserved>> ]_mgrVars

\* C5: no reachable state holds a reservation older than the 30 s TTL.
C5_ReservationLifetime ==
    \A r \in DOMAIN reserved : now - reserved[r].reservedAt <= RESERVATION_TTL_MS

\* the completed records of a session, in Map order
CompletedOf(key) ==
    LET Mine(r) == r.requesterSessionKey = key IN SelectSeq(completed, Mine)

\* C6: the suggestions of a capacity denial are the runIds of the (at most)
\* three completed records of the session with the smallest completedAt, in
\* ascending completedAt order, none of them running and none of another
\* session.
C6_CapacitySuggestions ==
    (ret.op = "reserveSlot" /\ ~ ret.ok /\ ret.reason = "capacity") =>
        LET mine == CompletedOf(Trim(ret.key))
            sug == ret.suggestions
            At(id) == CompletedGet(completed, id).completedAt
        IN  /\ ret.hasSuggestions
            /\ Len(sug) = (IF Len(mine) < 3 THEN Len(mine) ELSE 3)
            /\ \A i, j \in 1..Len(sug) : i # j => sug[i] # sug[j]
            /\ \A i \in 1..Len(sug) :
                  /\ \E m \in 1..Len(mine) : mine[m].runId = sug[i]
                  /\ sug[i] \notin DOMAIN running
            /\ \A i, j \in 1..Len(sug) : i < j => At(sug[i]) <= At(sug[j])
            /\ \A m \in 1..Len(mine) :
                  (\A i \in 1..Len(sug) : sug[i] # mine[m].runId) =>
                      \A i \in 1..Len(sug) : At(sug[i]) <= mine[m].completedAt

\* C7: a runId in completed stays in completed, whatever the step, unless the
\* step is a successful removeSubagent of that runId.
C7_CompletedRetained ==
    [][ \/ completed' = completed
        \/ \A r \in CompletedIds(completed) :
              \/ r \in CompletedIds(completed')
              \/ ret'.op = "removeSubagent" /\ ret'.ok /\ ret'.runId = r ]_mgrVars

\* C7 witness: the cleanup timer has run over completed records older than
\* the reservation TTL, one of them completed in this process
C7_TimerRanOverCompleted ==
    /\ ret.op = "cleanupTimer"
    /\ \E i \in 1..Len(completed) :
          /\ completed[i].runId \in ListenerRunIds
          /\ now - completed[i].completedAt > RESERVATION_TTL_MS

\* C8: removeSubagent(runId, key) fails and changes nothing when runId is
\* running, is not completed, or its completed record belongs to another
\* session than key; otherwise it deletes that one completed record and
\* nothing else, which lowers the session's total by one.
C8_RemoveSubagent ==
    [][ ret'.op = "removeSubagent" =>
          LET key == Trim(ret'.key)
              runId == ret'.runId
              refused == \/ runId \in DOMAIN running
                         \/ ~ CompletedHas(completed, runId)
                         \/ CompletedGet(completed, runId).requesterSessionKey # key
          IN  /\ ret'.ok <=> ~ refused
              /\ UNCHANGED <<running, reserved>>
              /\ refused => completed' = completed
              /\ ~ refused =>
                    /\ CompletedIds(completed') = CompletedIds(completed) \ {runId}
                    /\ Len(completed') = Len(completed) - 1
                    /\ \A i \in 1..Len(completed') :
                          completed'[i] = CompletedGet(completed, completed'[i].runId)
                    /\ getTotalCountForSession(MgrState', key) = TotalOf(key) - 1 ]_mgrVars

\* C8 witness: a removal that succeeded: the record is gone and other
\* completed records are still there
C8_Removed ==
    /\ ret.op = "removeSubagent" /\ ret.ok
    /\ ~ CompletedHas(completed, ret.runId)
    /\ Len(completed) > 0

\* C14: markCompleted of a runId that is not in running changes none of
\* running, completed and reserved, publishes no event and requests no
\* heartbeat; so a second markCompleted of a run leaves the record of the
\* first as it is.
C14_MarkCompletedUnknown ==
    [][(ret'.op = "markCompleted" /\ ret'.runId \notin DOMAIN running)
          => UNCHANGED <<running, completed, reserved>> /\ effects' = <<>>]_mgrVars

\* markCompleted was called for a run that had completed at an earlier time
C14_CalledAgain ==
    /\ ret.op = "markCompleted"
    /\ ret.runId \notin DOMAIN running
    /\ CompletedHas(completed, ret.runId)
    /\ CompletedGet(completed, ret.runId).completedAt < now
    /\ CompletedGet(completed, ret.runId).outcome = ret.reason

MgrStateNext ==
    [running |-> running', completed |-> completed', reserved |-> reserved',
     effects |-> <<>>]

RecordsOfKey(key) ==
    { i \in RegistryRunIds : RegistryFile[i].requesterSessionKey = key }

RECURSIVE InLifecycleOrder(_, _)
InLifecycleOrder(open, events) ==
    IF events = <<>> THEN TRUE
    ELSE /\ Head(events).type = "completed" => Head(events).runId \in open
         /\ InLifecycleOrder(publish(open, <<Head(events)>>), Tail(events))

\* C24: for every runId a `completed` event is published only after a
\* `spawned` event of that runId that no other `completed` has followed: no
\* `completed` without an earlier `spawned`, and at most one per registration.
C24_EventOrder ==
    [][InLifecycleOrder(awaitingCompleted, effects')]_mgrVars

\* a run registered by a caller has been completed: both events were published
C24_SpawnedThenCompleted ==
    /\ ret.op = "markCompleted"
    /\ \E i \in 1..Len(effects) : effects[i] = Event("completed", ret.runId)
    /\ ret.runId \notin awaitingCompleted
    /\ restored

\* C32: markCompleted of a running runId removes it from running and stores
\* it in completed with the given outcome and notified = false, so that
\* getPendingNotifications of its session includes it; a `completed` event is
\* published and a heartbeat requested; the total count of the session is
\* unchanged and its active count drops by one.
C32_CompletionLeavesUnnotified ==
    [][(ret'.op = "markCompleted" /\ ret'.runId \in DOMAIN running)
          => LET key == running[ret'.runId].requesterSessionKey
                 pending == getPendingNotifications(MgrStateNext, key)
             IN  /\ ret'.runId \notin DOMAIN running'
                 /\ CompletedHas(completed', ret'.runId)
                 /\ CompletedGet(completed', ret'.runId).outcome = ret'.reason
                 /\ ~ CompletedGet(completed', ret'.runId).notified
                 /\ \E i \in 1..Len(pending) : pending[i].runId = ret'.runId
                 /\ \E i \in 1..Len(effects') :
                        effects'[i] = Event("completed", ret'.runId)
                 /\ \E i \in 1..Len(effects') :
                        effects'[i] = Event("heartbeat", ret'.runId)
                 /\ getTotalCountForSession(MgrStateNext, key)
                       = getTotalCountForSession(MgrState, key)
                 /\ getActiveCountForSession(MgrStateNext, key)
                       = getActiveCountForSession(MgrState, key) - 1]_mgrVars

\* C39: in every reachable state no runId is both in running and in
\* completed; registering a runId that is already completed does not give it
\* a second, running entry.
C39_OneLifecycleStage ==
    \A r \in DOMAIN running : ~ CompletedHas(completed, r)

\* the entries the two maps hold for a runId
EntriesOf(st, runId) ==
    (IF runId \in DOMAIN st.running THEN 1 ELSE 0)
    + Cardinality({ i \in 1..Len(st.completed) : st.completed[i].runId = runId })

\* the entries of running and completed stored under a requester key
StoredCount(st, key) == RunningCount(st, key) + CompletedCount(st, key)

\* C38: syncFromRecord is idempotent on running and completed: applying the
\* record of a step once more changes neither map; a record whose runId is
\* already held adds no entry for it, a completed run stays completed and is
\* not put into running, and entries of other runs are untouched.  Loading
\* the registry file again changes nothing, and after the load the entries
\* stored under each recorded requester key are as many as the distinct
\* runIds recorded under it.
C38_SyncIdempotent ==
    [][/\ ret'.op = "syncFromRecord"
          => \A rec \in SyncRecords :
                (rec.runId = ret'.runId /\ rec.outcome = ret'.reason)
                => LET again == syncFromRecord(MgrStateNext, rec, now')
                       before == EntriesOf(MgrState, rec.runId)
                   IN  /\ again.running = running'
                       /\ again.completed = completed'
                       /\ EntriesOf(MgrStateNext, rec.runId)
                             <= (IF before = 0 THEN 1 ELSE before)
                       /\ CompletedHas(completed, rec.runId)
                             => /\ CompletedHas(completed', rec.runId)
                                /\ rec.runId \in DOMAIN running'
                                      => rec.runId \in DOMAIN running
                       /\ \A r \in (DOMAIN running \cup DOMAIN running'
                                      \cup RegistryRunIds) \ {rec.runId} :
                             EntriesOf(MgrStateNext, r) = EntriesOf(MgrState, r)
       /\ ret'.op = "restore"
          => LET again == restoreRuns(MgrStateNext, RegistryFile, now')
             IN  /\ again.running = running'
                 /\ again.completed = completed'
                 /\ \A i \in RegistryRunIds :
                       /\ EntriesOf(MgrStateNext, i) = 1
                       /\ StoredCount(MgrStateNext,
                                      RegistryFile[i].requesterSessionKey)
                             = Cardinality(RecordsOfKey(
                                   RegistryFile[i].requesterSessionKey))
      ]_mgrVars

\* the record of a completed run was synced as still running: the run is in
\* completed alone
C38_RunningRecordOfCompletedRun ==
    /\ ret.op = "syncFromRecord"
    /\ ret.reason = "none"
    /\ ret.runId \notin DOMAIN running
    /\ CompletedHas(completed, ret.runId)
    /\ restored

\* the manager state with the entries of one session only
OnlySession(st, key) ==
    LET Mine(r) == r.requesterSessionKey = key
    IN  [st EXCEPT
            !.running = [r \in { x \in DOMAIN st.running : Mine(st.running[x]) }
                            |-> st.running[r]],
            !.completed = SelectSeq(@, Mine),
            !.reserved = [r \in { x \in DOMAIN st.reserved : Mine(st.reserved[x]) }
                            |-> st.reserved[r]]]

\* the step leaves every entry of the sessions other than key as it is
OtherSessionsUntouched(key) ==
    /\ \A r \in DOMAIN running :
          running[r].requesterSessionKey # key
          => r \in DOMAIN running' /\ running'[r] = running[r]
    /\ \A r \in DOMAIN reserved :
          reserved[r].requesterSessionKey # key
          => r \in DOMAIN reserved' /\ reserved'[r] = reserved[r]
    /\ \A i \in 1..Len(completed) :
          completed[i].requesterSessionKey # key
          => \E j \in 1..Len(completed') : completed'[j] = completed[i]
    /\ \A r \in DOMAIN running' :
          running'[r].requesterSessionKey # key => r \in DOMAIN running
    /\ \A r \in DOMAIN reserved' :
          reserved'[r].requesterSessionKey # key => r \in DOMAIN reserved
    /\ \A j \in 1..Len(completed') :
          completed'[j].requesterSessionKey # key
          => \E i \in 1..Len(completed) : completed[i] = completed'[j]

\* C40: the result of reserveSlot(S) and the success of removeSubagent(runId,
\* S) are what they would be with the entries of S alone in the manager, and
\* a reserveSlot, removeSubagent, register or syncFromRecord called with key
\* S adds, changes and deletes no entry of another session.
C40_SessionIsolation ==
    [][/\ ret'.op = "reserveSlot"
          => LET res == reserveSlotResult(OnlySession(MgrState, Trim(ret'.key)),
                                          ret'.key)
             IN  /\ ret'.ok = res.allowed
                 /\ ret'.reason = res.reason
                 /\ ret'.suggestions = res.suggestions
       /\ ret'.op = "removeSubagent"
          => ret'.ok = removeSubagentResult(OnlySession(MgrState, Trim(ret'.key)),
                                            ret'.runId, ret'.key).success
       /\ ret'.op \in {"reserveSlot", "removeSubagent", "register", "syncFromRecord"}
          => OtherSessionsUntouched(Trim(ret'.key))
      ]_mgrVars

(***************************************************************************)
(* The typing controller of createTypingController.                        *)
(***************************************************************************)
\* startTypingLoop calls suspended at `await ensureStart()` at one time
MaxInFlight == 2
\* intervals of startTypingLoop left running with no variable holding them
MaxOrphanTimers == 1

\* the default of silentToken (SILENT_REPLY_TOKEN), as one character
SILENT_REPLY_TOKEN == <<"N">>

\* the arguments of createTypingController after the defaults of the
\* destructuring; a number that is not positive is given as 0
ParamSets ==
    [hasOnReplyStart : BOOLEAN,
     typingIntervalSeconds : {0, 6},
     typingTtlMs : {0, 120000},
     silentToken : {SILENT_REPLY_TOKEN},
     hasOnTypingTimeout : BOOLEAN,
     typingTimeoutReminderIntervalMs : {0, 300000}]

DefaultParams ==
    [hasOnReplyStart |-> TRUE, typingIntervalSeconds |-> 6, typingTtlMs |-> 120000,
     silentToken |-> SILENT_REPLY_TOKEN, hasOnTypingTimeout |-> FALSE,
     typingTimeoutReminderIntervalMs |-> 300000]

\* the text of startTypingOnText; <<>> stands for undefined as well
Texts == { <<>>, <<" ">>, <<"N">>, <<" ", "N">>, <<"h">> }

typingIntervalMs(p) == p.typingIntervalSeconds * 1000

\* isSilentReplyText(text, token) of ../tokens.js, on a trimmed text
isSilentReplyText(text, token) == text = token

NoneAwaiting == [invoked |-> 0, returned |-> 0]

TypingState ==
    [params |-> params, started |-> started, active |-> active,
     runComplete |-> runComplete, dispatchIdle |-> dispatchIdle,
     typingStartedAt |-> typingStartedAt,
     typingTimeoutReminderTimer |-> typingTimeoutReminderTimer,
     sealed |-> sealed, typingTimer |-> typingTimer,
     typingTtlTimer |-> typingTtlTimer, ttlPending |-> ttlPending,
     orphanTimers |-> orphanTimers, awaiting |-> awaiting, fired |-> {}]

resetCycle(st) ==
    [st EXCEPT !.started = FALSE, !.active = FALSE, !.runComplete = FALSE,
               !.dispatchIdle = FALSE]

\* clearing a timer that a variable holds stops that timer only
cleanup(st) ==
    IF st.sealed THEN st
    ELSE [resetCycle(st) EXCEPT
            !.typingTtlTimer = FALSE, !.ttlPending = FALSE,
            !.typingTimer = FALSE,
            !.typingTimeoutReminderTimer = FALSE,
            !.sealed = TRUE]

refreshTypingTtl(st) ==
    IF st.sealed THEN st
    ELSE IF typingIntervalMs(st.params) <= 0 THEN st
    ELSE IF st.params.typingTtlMs <= 0 THEN st
    ELSE [st EXCEPT !.typingTtlTimer = TRUE, !.ttlPending = TRUE]

\* the callback of the setTimeout of refreshTypingTtl
typingTtlCallback(st) ==
    LET elapsed == [st EXCEPT !.ttlPending = FALSE]
    IN  IF ~ elapsed.typingTimer THEN elapsed
        ELSE
            LET stopped == [elapsed EXCEPT !.typingTimer = FALSE,
                                         !.typingTtlTimer = FALSE]
            IN  IF stopped.params.hasOnTypingTimeout /\ stopped.typingStartedAt
                THEN [stopped EXCEPT
                        !.fired = @ \cup {"onTypingTimeout"},
                        !.typingTimeoutReminderTimer =
                            \/ @
                            \/ stopped.params.typingTimeoutReminderIntervalMs > 0]
                ELSE stopped

\* the callback of the setInterval that typingTtlCallback starts
reminderCallback(st) ==
    IF st.sealed \/ st.runComplete
    THEN [st EXCEPT !.typingTimeoutReminderTimer = FALSE]
    ELSE IF st.typingStartedAt
    THEN [st EXCEPT !.fired = @ \cup {"onTypingTimeout"}]
    ELSE st

isActive(st) == st.active /\ ~ st.sealed

\* A variant of triggerTyping that does not look at sealed.
triggerTypingWhenSealed(st) ==
    IF st.params.hasOnReplyStart
    THEN [st EXCEPT !.fired = @ \cup {"onReplyStart"}]
    ELSE st

\* onReplyStart is invoked before triggerTyping suspends at its await
triggerTyping(st) ==
    IF st.sealed THEN st
    ELSE IF st.params.hasOnReplyStart
    THEN [st EXCEPT !.fired = @ \cup {"onReplyStart"}]
    ELSE st

\* A variant of ensureStart that does not look at sealed.
ensureStartWhenSealed(st) ==
    IF st.runComplete THEN st
    ELSE LET a == [st EXCEPT !.active = TRUE]
         IN  IF a.started THEN a
             ELSE triggerTyping([a EXCEPT !.started = TRUE,
                                          !.typingStartedAt = TRUE])

\* ensureStart up to its await; nothing follows the await
ensureStart(st) ==
    IF st.sealed THEN st
    ELSE IF st.runComplete THEN st
    ELSE LET a == [st EXCEPT !.active = TRUE]
         IN  IF a.started THEN a
             ELSE triggerTyping([a EXCEPT !.started = TRUE,
                                          !.typingStartedAt = TRUE])

\* A variant of maybeStopOnIdle that does not ask whether typing is active.
maybeStopOnIdleInactiveToo(st) ==
    IF st.runComplete /\ st.dispatchIdle THEN cleanup(st) ELSE st

maybeStopOnIdle(st) ==
    IF ~ st.active THEN st
    ELSE IF st.runComplete /\ st.dispatchIdle THEN cleanup(st)
    ELSE st

\* startTypingLoop up to `await ensureStart()`: the call is then suspended,
\* and it is recorded whether the awaited ensureStart invoked onReplyStart
startTypingLoop(st) ==
    IF st.sealed THEN st
    ELSE IF st.runComplete THEN st
    ELSE LET r == refreshTypingTtl(st)
         IN  IF ~ r.params.hasOnReplyStart THEN r
             ELSE IF typingIntervalMs(r.params) <= 0 THEN r
             ELSE IF r.typingTimer THEN r
             ELSE LET e == ensureStart(r)
                      kind == IF "onReplyStart" \in e.fired /\ "onReplyStart" \notin r.fired
                              THEN "invoked" ELSE "returned"
                  IN  [e EXCEPT !.awaiting[kind] = @ + 1]

\* startTypingLoop after `await ensureStart()`; when the awaited promise is
\* rejected (onReplyStart rejected or threw) the call ends there.  An interval
\* that typingTimer held stays live when the variable is overwritten.
startTypingLoopResume(st, kind, settled) ==
    LET back == [st EXCEPT !.awaiting[kind] = @ - 1]
    IN  IF settled = "rejected" THEN back
        ELSE [back EXCEPT
                !.orphanTimers = IF back.typingTimer THEN @ + 1 ELSE @,
                !.typingTimer = TRUE]

\* startTypingOnText up to `await startTypingLoop()`; nothing follows it
startTypingOnText(st, text) ==
    IF st.sealed THEN st
    ELSE LET trimmed == Trim(text)
         IN  IF trimmed = <<>> THEN st
             ELSE IF /\ st.params.silentToken # <<>>
                     /\ isSilentReplyText(trimmed, st.params.silentToken)
             THEN st
             ELSE startTypingLoop(refreshTypingTtl(st))

markRunComplete(st) == maybeStopOnIdle([st EXCEPT !.runComplete = TRUE])

markDispatchIdle(st) == maybeStopOnIdle([st EXCEPT !.dispatchIdle = TRUE])

(***************************************************************************)
(* The typing controller as a state machine.                               *)
(***************************************************************************)
\* the state after createTypingController(p)
TypingConstructed(p) ==
    /\ params = p
    /\ started = FALSE
    /\ active = FALSE
    /\ runComplete = FALSE
    /\ dispatchIdle = FALSE
    /\ typingStartedAt = FALSE
    /\ typingTimeoutReminderTimer = FALSE
    /\ sealed = FALSE
    /\ typingTimer = FALSE
    /\ typingTtlTimer = FALSE
    /\ ttlPending = FALSE
    /\ orphanTimers = 0
    /\ awaiting = NoneAwaiting
    /\ markedRun = FALSE
    /\ markedIdle = FALSE
    /\ call = [op |-> "new", sealed |-> FALSE]
    /\ fired = {}

CommitTyping(st, op) ==
    /\ started' = st.started
    /\ active' = st.active
    /\ runComplete' = st.runComplete
    /\ dispatchIdle' = st.dispatchIdle
    /\ typingStartedAt' = st.typingStartedAt
    /\ typingTimeoutReminderTimer' = st.typingTimeoutReminderTimer
    /\ sealed' = st.sealed
    /\ typingTimer' = st.typingTimer
    /\ typingTtlTimer' = st.typingTtlTimer
    /\ ttlPending' = st.ttlPending
    /\ orphanTimers' = st.orphanTimers
    /\ awaiting' = st.awaiting
    /\ fired' = st.fired
    /\ call' = [op |-> op, sealed |-> sealed]
    /\ UNCHANGED params
    /\ UNCHANGED notTypingVars

InFlight(st) == st.awaiting.invoked + st.awaiting.returned

\* controller.onReplyStart()
EnsureStart ==
    /\ CommitTyping(ensureStart(TypingState), "ensureStart")
    /\ UNCHANGED <<markedRun, markedIdle>>

StartTypingLoop ==
    /\ InFlight(startTypingLoop(TypingState)) <= MaxInFlight
    /\ CommitTyping(startTypingLoop(TypingState), "startTypingLoop")
    /\ UNCHANGED <<markedRun, markedIdle>>

StartTypingLoopResumes(kind, settled) ==
    /\ awaiting[kind] > 0
    /\ settled = "rejected" => kind = "invoked"
    /\ (settled = "fulfilled" /\ typingTimer) => orphanTimers < MaxOrphanTimers
    /\ CommitTyping(startTypingLoopResume(TypingState, kind, settled),
                    "startTypingLoopResume")
    /\ UNCHANGED <<markedRun, markedIdle>>

StartTypingOnText(text) ==
    /\ InFlight(startTypingOnText(TypingState, text)) <= MaxInFlight
    /\ CommitTyping(startTypingOnText(TypingState, text), "startTypingOnText")
    /\ UNCHANGED <<markedRun, markedIdle>>

RefreshTypingTtl ==
    /\ CommitTyping(refreshTypingTtl(TypingState), "refreshTypingTtl")
    /\ UNCHANGED <<markedRun, markedIdle>>

MarkRunComplete ==
    /\ CommitTyping(markRunComplete(TypingState), "markRunComplete")
    /\ markedRun' = TRUE
    /\ UNCHANGED markedIdle

MarkDispatchIdle ==
    /\ CommitTyping(markDispatchIdle(TypingState), "markDispatchIdle")
    /\ markedIdle' = TRUE
    /\ UNCHANGED markedRun

Cleanup ==
    /\ CommitTyping(cleanup(TypingState), "cleanup")
    /\ UNCHANGED <<markedRun, markedIdle>>

\* a tick of an interval made by startTypingLoop, held by typingTimer or not
TypingTimerFires ==
    /\ typingTimer \/ orphanTimers > 0
    /\ CommitTyping(triggerTyping(TypingState), "typingTimer")
    /\ UNCHANGED <<markedRun, markedIdle>>

TypingTtlTimerFires ==
    /\ ttlPending
    /\ CommitTyping(typingTtlCallback(TypingState), "typingTtlTimer")
    /\ UNCHANGED <<markedRun, markedIdle>>

ReminderTimerFires ==
    /\ typingTimeoutReminderTimer
    /\ CommitTyping(reminderCallback(TypingState), "reminderTimer")
    /\ UNCHANGED <<markedRun, markedIdle>>

NextTyping ==
    \/ EnsureStart
    \/ StartTypingLoop
    \/ \E kind \in {"invoked", "returned"}, settled \in {"fulfilled", "rejected"} :
          StartTypingLoopResumes(kind, settled)
    \/ \E text \in Texts : StartTypingOnText(text)
    \/ RefreshTypingTtl
    \/ MarkRunComplete
    \/ MarkDispatchIdle
    \/ Cleanup
    \/ TypingTimerFires
    \/ TypingTtlTimerFires
    \/ ReminderTimerFires

(***************************************************************************)
(* The per-backend run queue: enqueueCliRun and the queueKey of            *)
(* runCliAgent.  A promise settles, and its reactions run, in steps of     *)
(* their own (microtasks), between which other calls may run.              *)
(***************************************************************************)
\* enqueueCliRun is called at most this many times in one behaviour
MaxCliRuns == 3

\* the backends of the configuration: id and `serialize` as configured
Backends ==
    { [id |-> <<"a">>, serialize |-> "unset"],
      [id |-> <<"b">>, serialize |-> "false"],
      [id |-> <<"c">>, serialize |-> "true"] }

RunIds == { <<"1">>, <<"2">> }

\* const serialize = backend.serialize ?? true
serializeOf(backend) == backend.serialize # "false"

\* A variant of queueKey that gives every run a key of its own.
queueKeyPerRun(backend, runId) == backend.id \o <<":">> \o runId

queueKey(backend, runId) ==
    IF serializeOf(backend) THEN backend.id ELSE backend.id \o <<":">> \o runId

\* CLI_RUN_QUEUE.get(key) ?? Promise.resolve(); 0 stands for Promise.resolve()
priorOf(queue, key) == IF key \in DOMAIN queue THEN queue[key] ELSE 0

\* the call of enqueueCliRun: `chained` and `tracked` are made and pending,
\* `prior` gets the handler of catch, the map holds the new `tracked`
enqueueCliRun(st, key, backendId) ==
    LET prior == priorOf(st.queue, key)
        id == Len(st.runs) + 1
        run == [key |-> key, backend |-> backendId, prior |-> prior,
                status |-> "queued", finallyRan |-> FALSE,
                tracked |-> "pending", handled |-> FALSE]
        marked == IF prior = 0 THEN st.runs
                  ELSE [st.runs EXCEPT ![prior].handled = TRUE]
    IN  [st EXCEPT !.runs = Append(marked, run),
                   !.queue = MapSet(@, key, id)]

\* prior.catch(() => undefined).then(task): task is called once prior has
\* settled, fulfilled or rejected
priorSettled(runs, i) ==
    IF runs[i].prior = 0 THEN TRUE ELSE runs[runs[i].prior].tracked # "pending"

\* A variant of finallyCallback that leaves the map as it is.
finallyCallbackKeepsEntry(queue, key, i) == queue

\* A variant of finallyCallback that deletes the entry whoever holds it.
finallyCallbackAnyTail(queue, key, i) == MapDelete(queue, key)

\* the callback of chained.finally
finallyCallback(queue, key, i) ==
    IF key \in DOMAIN queue /\ queue[key] = i THEN MapDelete(queue, key) ELSE queue

QueueState == [queue |-> CLI_RUN_QUEUE, runs |-> cliRuns]

QueueConstructed ==
    /\ CLI_RUN_QUEUE = EmptyMap
    /\ cliRuns = <<>>
    /\ unhandled = {}

\* runCliAgent reaching `await enqueueCliRun(queueKey, ...)`
EnqueueCliRun(backend, runId) ==
    /\ Len(cliRuns) < MaxCliRuns
    /\ LET st == enqueueCliRun(QueueState, queueKey(backend, runId), backend.id)
       IN  /\ CLI_RUN_QUEUE' = st.queue
           /\ cliRuns' = st.runs
    /\ UNCHANGED unhandled
    /\ UNCHANGED notQueueVars

\* the reaction of then(task): the task starts
TaskStarts(i) ==
    /\ cliRuns[i].status = "queued"
    /\ priorSettled(cliRuns, i)
    /\ cliRuns' = [cliRuns EXCEPT ![i].status = "running"]
    /\ UNCHANGED <<CLI_RUN_QUEUE, unhandled>>
    /\ UNCHANGED notQueueVars

\* the task's promise settles, and `chained`, which the caller awaits, with it
TaskSettles(i, outcome) ==
    /\ cliRuns[i].status = "running"
    /\ cliRuns' = [cliRuns EXCEPT ![i].status = outcome]
    /\ UNCHANGED <<CLI_RUN_QUEUE, unhandled>>
    /\ UNCHANGED notQueueVars

\* the reaction of chained.finally
FinallyRuns(i) ==
    /\ cliRuns[i].status \in {"fulfilled", "rejected"}
    /\ ~ cliRuns[i].finallyRan
    /\ cliRuns' = [cliRuns EXCEPT ![i].finallyRan = TRUE]
    /\ CLI_RUN_QUEUE' = finallyCallback(CLI_RUN_QUEUE, cliRuns[i].key, i)
    /\ UNCHANGED unhandled
    /\ UNCHANGED notQueueVars

\* `tracked` settles as `chained` did; rejected with no handler attached, it
\* is an unhandled rejection
TrackedSettles(i) ==
    /\ cliRuns[i].finallyRan
    /\ cliRuns[i].tracked = "pending"
    /\ cliRuns' = [cliRuns EXCEPT ![i].tracked = cliRuns[i].status]
    /\ unhandled' = IF cliRuns[i].status = "rejected" /\ ~ cliRuns[i].handled
                    THEN unhandled \cup {i} ELSE unhandled
    /\ UNCHANGED CLI_RUN_QUEUE
    /\ UNCHANGED notQueueVars

NextQueue ==
    \/ \E backend \in Backends, runId \in RunIds : EnqueueCliRun(backend, runId)
    \/ \E i \in 1..Len(cliRuns) : TaskStarts(i)
    \/ \E i \in 1..Len(cliRuns), outcome \in {"fulfilled", "rejected"} :
          TaskSettles(i, outcome)
    \/ \E i \in 1..Len(cliRuns) : FinallyRuns(i)
    \/ \E i \in 1..Len(cliRuns) : TrackedSettles(i)

(***************************************************************************)
(* The pending interactions of the interaction manager.                    *)
(***************************************************************************)
DEFAULT_TIMEOUT_MS == 300000

\* createPendingInteraction is called at most this many times
MaxInteractions == 3
\* the clock of the interaction manager advances at most this many steps
MaxInteractionTicks == 2

\* one step of the clock: an interaction made with the default timeout is
\* seen at its expiresAt and one step after it
InteractionClockStepMs == DEFAULT_TIMEOUT_MS

InteractionKeys == {"k1", "k2"}

\* params.timeoutMs; 0 - 1 stands for the parameter being absent
TimeoutParams == {0 - 1, 0, DEFAULT_TIMEOUT_MS}

NoInteraction == [id |-> 0, sessionKey |-> "", createdAt |-> 0, expiresAt |-> 0]

createPendingInteraction(id, sessionKey, timeoutParam, t) ==
    LET timeoutMs == IF timeoutParam = 0 - 1 THEN DEFAULT_TIMEOUT_MS ELSE timeoutParam
    IN  [id |-> id, sessionKey |-> sessionKey, createdAt |-> t,
         expiresAt |-> t + timeoutMs]

\* A variant of isExpired that counts the instant expiresAt as expired.
isExpiredAtDeadline(interaction, t) == t >= interaction.expiresAt

isExpired(interaction, t) == t > interaction.expiresAt

\* A variant of setPendingInteraction that keeps an interaction the session
\* already has.
setPendingInteractionIfAbsent(store, interaction) ==
    IF interaction.sessionKey \in DOMAIN store THEN store
    ELSE MapSet(store, interaction.sessionKey, interaction)

setPendingInteraction(store, interaction) ==
    MapSet(store, interaction.sessionKey, interaction)

\* what getPendingInteraction returns; NoInteraction stands for undefined
getPendingInteractionResult(store, sessionKey, t) ==
    IF sessionKey \notin DOMAIN store THEN NoInteraction
    ELSE IF isExpired(store[sessionKey], t) THEN NoInteraction
    ELSE store[sessionKey]

getPendingInteraction(store, sessionKey, t) ==
    IF sessionKey \in DOMAIN store /\ isExpired(store[sessionKey], t)
    THEN MapDelete(store, sessionKey)
    ELSE store

clearPendingInteraction(store, sessionKey) == MapDelete(store, sessionKey)

cleanupExpired(store, t) ==
    [k \in { x \in DOMAIN store : ~ (t > store[x].expiresAt) } |-> store[k]]

\* the id of the interaction that the store holds for the key; 0 for none
heldId(store, sessionKey) ==
    IF sessionKey \in DOMAIN store THEN store[sessionKey].id ELSE 0

\* the last call: its result, and what the store held for its key before it
Got(op, key, result, held) ==
    [op |-> op, key |-> key, result |-> result, held |-> held]

InteractionsConstructed ==
    /\ pendingInteractions = EmptyMap
    /\ cleanupTimer = FALSE
    /\ clock = 0
    /\ nextInteractionId = 1
    /\ got = Got("new", "", NoInteraction, 0)

\* createPendingInteraction, then setPendingInteraction of what it returned
SetPendingInteraction(sessionKey, timeoutParam) ==
    /\ nextInteractionId <= MaxInteractions
    /\ LET interaction ==
              createPendingInteraction(nextInteractionId, sessionKey, timeoutParam, clock)
       IN  /\ pendingInteractions' = setPendingInteraction(pendingInteractions, interaction)
           /\ got' = Got("set", sessionKey, interaction,
                      heldId(pendingInteractions, sessionKey))
    /\ cleanupTimer' = TRUE
    /\ nextInteractionId' = nextInteractionId + 1
    /\ UNCHANGED clock
    /\ UNCHANGED notInteractionVars

GetPendingInteraction(sessionKey) ==
    /\ pendingInteractions' = getPendingInteraction(pendingInteractions, sessionKey, clock)
    /\ got' = Got("get", sessionKey,
                  getPendingInteractionResult(pendingInteractions, sessionKey, clock),
                  heldId(pendingInteractions, sessionKey))
    /\ UNCHANGED <<cleanupTimer, clock, nextInteractionId>>
    /\ UNCHANGED notInteractionVars

ClearPendingInteraction(sessionKey) ==
    /\ pendingInteractions' = clearPendingInteraction(pendingInteractions, sessionKey)
    /\ got' = Got("clear", sessionKey,
                  IF sessionKey \in DOMAIN pendingInteractions
                  THEN pendingInteractions[sessionKey] ELSE NoInteraction,
                  heldId(pendingInteractions, sessionKey))
    /\ UNCHANGED <<cleanupTimer, clock, nextInteractionId>>
    /\ UNCHANGED notInteractionVars

\* cleanupExpired, called directly or by the interval of ensureCleanupTimer
\* (every CLEANUP_INTERVAL_MS, at any point between two steps of the clock);
\* it stops the timer when nothing is left
CleanupExpired ==
    /\ pendingInteractions' = cleanupExpired(pendingInteractions, clock)
    /\ cleanupTimer' = (cleanupTimer /\ DOMAIN pendingInteractions' # {})
    /\ got' = Got("cleanupExpired", "", NoInteraction, 0)
    /\ UNCHANGED <<clock, nextInteractionId>>
    /\ UNCHANGED notInteractionVars

InteractionTick ==
    /\ clock + InteractionClockStepMs <= MaxInteractionTicks * InteractionClockStepMs
    /\ clock' = clock + InteractionClockStepMs
    /\ got' = Got("tick", "", NoInteraction, 0)
    /\ UNCHANGED <<pendingInteractions, cleanupTimer, nextInteractionId>>
    /\ UNCHANGED notInteractionVars

NextInteractions ==
    \/ \E k \in InteractionKeys, timeoutParam \in TimeoutParams :
          SetPendingInteraction(k, timeoutParam)
    \/ \E k \in InteractionKeys : GetPendingInteraction(k)
    \/ \E k \in InteractionKeys : ClearPendingInteraction(k)
    \/ CleanupExpired
    \/ InteractionTick

(***************************************************************************)
(* The pending interaction detected in the output of a CLI run.            *)
(***************************************************************************)
\* the parser collected at most this many tool-use events
MaxToolUses == 2
\* the parser collected at most this many tool-result events
MaxToolResults == 2

ToolIds == {"a", "b"}

ToolNames == {"AskUserQuestion", "ExitPlanMode", "Bash"}

\* the question text of the first question of the input; "" when the input
\* has no first question, or the question is not a non-empty string
Questions == {"", "q"}

PLAN_APPROVAL_QUESTION == "plan"

CliToolUseEvents == [id : ToolIds, name : ToolNames, question : Questions]

SeqsUpTo(S, n) == UNION { [1..k -> S] : k \in 0..n }

NoDetectedInteraction == [type |-> "none", toolCallId |-> "", question |-> ""]

completedIdsOf(results) == { results[i] : i \in 1..Len(results) }

\* the loop of detectPendingInteraction from index i down to 1
RECURSIVE detectFrom(_, _, _)
detectFrom(uses, completedIds, i) ==
    IF i = 0 THEN NoDetectedInteraction
    ELSE IF uses[i].id \in completedIds THEN detectFrom(uses, completedIds, i - 1)
    ELSE IF uses[i].name = "AskUserQuestion" /\ uses[i].question # ""
    THEN [type |-> "ask_user_question", toolCallId |-> uses[i].id,
          question |-> uses[i].question]
    ELSE IF uses[i].name = "ExitPlanMode"
    THEN [type |-> "plan_approval", toolCallId |-> uses[i].id,
          question |-> PLAN_APPROVAL_QUESTION]
    ELSE detectFrom(uses, completedIds, i - 1)

\* A variant of detectPendingInteraction that looks at the last tool use
\* without a result and at no earlier one.
detectPendingInteractionLastOnly(uses, results) ==
    LET open == { i \in 1..Len(uses) : uses[i].id \notin completedIdsOf(results) }
        last == CHOOSE i \in open : \A j \in open : j <= i
    IN  IF open = {} THEN NoDetectedInteraction
        ELSE IF uses[last].name = "AskUserQuestion" /\ uses[last].question # ""
        THEN [type |-> "ask_user_question", toolCallId |-> uses[last].id,
              question |-> uses[last].question]
        ELSE IF uses[last].name = "ExitPlanMode"
        THEN [type |-> "plan_approval", toolCallId |-> uses[last].id,
              question |-> PLAN_APPROVAL_QUESTION]
        ELSE NoDetectedInteraction

\* A variant of detectPendingInteraction that takes no tool use as completed.
detectPendingInteractionAnyToolUse(uses, results) ==
    detectFrom(uses, {}, Len(uses))

detectPendingInteraction(uses, results) ==
    detectFrom(uses, completedIdsOf(results), Len(uses))

NotParsed == [parsed |-> FALSE, detected |-> NoDetectedInteraction]

ParserIdle ==
    /\ toolUses = <<>>
    /\ toolResults = <<>>
    /\ pendingInteraction = NotParsed

\* the lists parseCliStreamJsonl has collected when it reaches its last lines
ParserCollected ==
    /\ toolUses \in SeqsUpTo(CliToolUseEvents, MaxToolUses)
    /\ toolResults \in SeqsUpTo(ToolIds, MaxToolResults)
    /\ pendingInteraction = NotParsed

\* the last lines of parseCliStreamJsonl
ParseCliStreamJsonl ==
    /\ ~ pendingInteraction.parsed
    /\ pendingInteraction' =
          [parsed |-> TRUE, detected |-> detectPendingInteraction(toolUses, toolResults)]
    /\ UNCHANGED <<toolUses, toolResults>>
    /\ UNCHANGED notParserVars

NextParser == ParseCliStreamJsonl

(***************************************************************************)
(* The command line of a sandboxed CLI run.  A string is a sequence of     *)
(* one-character strings.                                                  *)
(***************************************************************************)
\* an argument has at most this many characters
MaxArgLen == 2
\* argv holds the command and at most this many arguments
MaxArgs == 1

\* the quote, the characters the shell reads as syntax outside quotes, and
\* the backslash
ArgChars == {"'", ";", " ", "\\"}

ArgStrings == SeqsUpTo(ArgChars, MaxArgLen)

Argvs == UNION { [1..k -> ArgStrings] : k \in 1..(MaxArgs + 1) }

\* arg.replace(/'/g, "'\\''")
RECURSIVE replaceQuotes(_)
replaceQuotes(arg) ==
    IF arg = <<>> THEN <<>>
    ELSE IF Head(arg) = "'" THEN <<"'", "\\", "'", "'">> \o replaceQuotes(Tail(arg))
    ELSE <<Head(arg)>> \o replaceQuotes(Tail(arg))

\* A variant of quoteShellArg that leaves embedded quotes as they are.
quoteShellArgUnescaped(arg) == <<"'">> \o arg \o <<"'">>

quoteShellArg(arg) == <<"'">> \o replaceQuotes(arg) \o <<"'">>

\* Array.prototype.join(" ")
RECURSIVE joinWithSpace(_)
joinWithSpace(strings) ==
    IF strings = <<>> THEN <<>>
    ELSE IF Len(strings) = 1 THEN strings[1]
    ELSE strings[1] \o <<" ">> \o joinWithSpace(Tail(strings))

\* the cliCommand of buildCliSandboxCommand; argv is [command, ...args]
buildCliCommand(argv) ==
    joinWithSpace([i \in 1..Len(argv) |-> quoteShellArg(argv[i])])

\* the last three elements of what buildDockerExecArgs returns
buildDockerExecArgs(command) == <<"sh", "-lc", command>>

buildCliSandboxCommand(argv) == buildDockerExecArgs(buildCliCommand(argv))

NotBuilt == <<>>

QuoteIdle ==
    /\ cliArgv = <<>>
    /\ cliCommand = NotBuilt

QuoteCalled ==
    /\ cliArgv \in Argvs
    /\ cliCommand = NotBuilt

BuildCliSandboxCommand ==
    /\ cliCommand = NotBuilt
    /\ cliArgv # <<>>
    /\ cliCommand' = buildCliSandboxCommand(cliArgv)
    /\ UNCHANGED cliArgv
    /\ UNCHANGED notQuoteVars

NextQuote == BuildCliSandboxCommand

(***************************************************************************)
(* The answer of a user to a pending interaction.                          *)
(***************************************************************************)
\* a user message has at most this many characters
MaxMessageLen == 3
\* an interaction offers at most this many options
MaxOptions == 2

MessageChars == {"1", "2", "x", "X", " ", ","}

UserMessages == SeqsUpTo(MessageChars, MaxMessageLen)

OptionLabels == { <<"1">>, <<"2">>, <<"x">>, <<"X">> }

\* the labels of the options, in order; <<>> also stands for no options
OptionLists == SeqsUpTo(OptionLabels, MaxOptions)

DigitValue(c) == IF c = "1" THEN 1 ELSE 2

IsDigit(c) == c \in {"1", "2"}

\* the value of the leading digits of s, continuing from acc
RECURSIVE digitsValue(_, _)
digitsValue(s, acc) ==
    IF s = <<>> \/ ~ IsDigit(Head(s)) THEN acc
    ELSE digitsValue(Tail(s), 10 * acc + DigitValue(Head(s)))

NaN == 0 - 1

\* parseInt(s, 10): leading white space is skipped, the longest prefix of
\* digits is read, NaN when there is none
parseInt(s) ==
    LET t == TrimStart(s)
    IN  IF t = <<>> \/ ~ IsDigit(Head(t)) THEN NaN ELSE digitsValue(t, 0)

toLowerCase(s) == [i \in 1..Len(s) |-> IF s[i] = "X" THEN "x" ELSE s[i]]

includesComma(s) == \E i \in 1..Len(s) : s[i] = ","

\* String.prototype.split(","); cur is the part being read
RECURSIVE splitFrom(_, _)
splitFrom(s, cur) ==
    IF s = <<>> THEN <<cur>>
    ELSE IF Head(s) = "," THEN <<cur>> \o splitFrom(Tail(s), <<>>)
    ELSE splitFrom(Tail(s), Append(cur, Head(s)))

splitOnComma(s) == splitFrom(s, <<>>)

includesLabel(labels, label) == \E i \in 1..Len(labels) : labels[i] = label

\* the loop over the parts of a multi-select answer
RECURSIVE collectLabels(_, _, _)
collectLabels(parts, options, labels) ==
    IF parts = <<>> THEN labels
    ELSE LET num == parseInt(Trim(Head(parts)))
             valid == num # NaN /\ num >= 1 /\ num <= Len(options)
         IN  IF valid /\ options[num] # <<>> /\ ~ includesLabel(labels, options[num])
             THEN collectLabels(Tail(parts), options, Append(labels, options[num]))
             ELSE collectLabels(Tail(parts), options, labels)

\* Array.prototype.join(", ")
RECURSIVE joinWithCommaSpace(_)
joinWithCommaSpace(strings) ==
    IF strings = <<>> THEN <<>>
    ELSE IF Len(strings) = 1 THEN strings[1]
    ELSE strings[1] \o <<",", " ">> \o joinWithCommaSpace(Tail(strings))

\* the indices of the options whose label matches, ignoring case
matchingOptions(options, lowerTrimmed) ==
    { i \in 1..Len(options) : toLowerCase(options[i]) = lowerTrimmed }

Min(S) == CHOOSE x \in S : \A y \in S : x <= y

\* the part of parseUserAnswer after the multi-select branch
parseSingleAnswer(trimmed, options) ==
    LET num == parseInt(trimmed)
        matches == matchingOptions(options, toLowerCase(trimmed))
    IN  IF num # NaN /\ num >= 1 /\ num <= Len(options) THEN options[num]
        ELSE IF matches # {} THEN options[Min(matches)]
        ELSE trimmed

parseUserAnswer(userMessage, options, multiSelect) ==
    LET trimmed == Trim(userMessage)
        labels == collectLabels(splitOnComma(trimmed), options, <<>>)
    IN  IF options = <<>> THEN trimmed
        ELSE IF multiSelect /\ includesComma(trimmed) /\ labels # <<>>
        THEN joinWithCommaSpace(labels)
        ELSE parseSingleAnswer(trimmed, options)

AnswerIdle ==
    /\ answerInput = [userMessage |-> <<>>, options |-> <<>>, multiSelect |-> FALSE]
    /\ answers = <<>>

AnswerAsked ==
    /\ answerInput \in [userMessage : UserMessages, options : OptionLists,
                        multiSelect : BOOLEAN]
    /\ answers = <<>>

\* parseUserAnswer of the user message
ParseUserAnswer ==
    /\ answers = <<>>
    /\ answers' = <<parseUserAnswer(answerInput.userMessage, answerInput.options,
                                    answerInput.multiSelect)>>
    /\ UNCHANGED answerInput
    /\ UNCHANGED notAnswerVars

\* parseUserAnswer of the answer it returned, with the same options
ParseUserAnswerAgain ==
    /\ Len(answers) = 1
    /\ answers' = Append(answers,
                         parseUserAnswer(answers[1], answerInput.options,
                                         answerInput.multiSelect))
    /\ UNCHANGED answerInput
    /\ UNCHANGED notAnswerVars

NextAnswer == ParseUserAnswer \/ ParseUserAnswerAgain

(***************************************************************************)
(* The announce flow of a completed child: runSubagentAnnounceFlow with    *)
(* maybeQueueSubagentAnnounce and sendAnnounce.  An invocation is a        *)
(* process that is suspended at each await; pc names the call it awaits.   *)
(***************************************************************************)
MaxAnnounceRuns == 2

QueueModes == {"steer", "steer-backlog", "followup", "collect", "interrupt", "queue"}

Cleanups == {"delete", "keep"}

\* the parent session as maybeQueueSubagentAnnounce finds it: a run can be
\* active only for a session with a sessionId, injection can succeed only
\* into an active run
ParentStates ==
    {p \in [mode : QueueModes, sessionId : BOOLEAN, isActive : BOOLEAN,
            steerOk : BOOLEAN] :
        /\ p.isActive => p.sessionId
        /\ p.steerOk => p.isActive}

NoParent == [mode |-> "queue", sessionId |-> FALSE, isActive |-> FALSE, steerOk |-> FALSE]

\* planMode chooses the wording of the trigger message and nothing else
AnnounceParams ==
    [roundOneReply : BOOLEAN, waitForCompletion : BOOLEAN, label : BOOLEAN,
     cleanup : Cleanups, planMode : BOOLEAN]

\* a variant of maybeQueueSubagentAnnounce that queues before it steers
maybeQueueSubagentAnnounceQueueFirst(p) ==
    IF ~ p.sessionId THEN "none"
    ELSE IF p.isActive /\ p.mode \in {"followup", "collect", "steer-backlog", "interrupt", "steer"}
         THEN "queued"
    ELSE IF p.mode \in {"steer", "steer-backlog"} /\ p.steerOk THEN "steered"
    ELSE "none"

maybeQueueSubagentAnnounce(p) ==
    IF ~ p.sessionId THEN "none"
    ELSE IF p.mode \in {"steer", "steer-backlog"} /\ p.steerOk THEN "steered"
    ELSE IF p.isActive /\ p.mode \in {"followup", "collect", "steer-backlog", "interrupt", "steer"}
         THEN "queued"
    ELSE "none"

\* the finally block: sessions.patch when a label was given, then
\* sessions.delete when cleanup is "delete", then the return of didAnnounce
afterSessionsPatch(f) ==
    IF f.params.cleanup = "delete" THEN [f EXCEPT !.pc = "sessions.delete"]
    ELSE [f EXCEPT !.pc = "returned", !.settled = IF f.didAnnounce THEN "true" ELSE "false"]

finallyBlock(f) ==
    IF f.params.label THEN [f EXCEPT !.pc = "sessions.patch"]
    ELSE afterSessionsPatch(f)

\* a variant of the catch block that passes the failure on to the caller
catchBlockRethrows(f) == [f EXCEPT !.pc = "returned", !.settled = "rejected"]

\* the catch block: the failure is logged, didAnnounce stays as it is
catchBlock(f) == finallyBlock(f)

\* the part of the try block after the first reply was looked for
afterReply(f) ==
    IF f.reply THEN [f EXCEPT !.pc = "route"] ELSE [f EXCEPT !.pc = "readLatestAssistantReply"]

\* the flow up to its first await
runSubagentAnnounceFlow(child, run, p) ==
    LET f == [pc |-> "start", child |-> child, run |-> run, params |-> p,
              reply |-> p.roundOneReply, didAnnounce |-> FALSE,
              queued |-> "unset", parent |-> NoParent, settled |-> "pending"]
    IN  IF ~ f.reply /\ p.waitForCompletion
        THEN [f EXCEPT !.pc = "agent.wait"]
        ELSE afterReply(f)

NoAnnounceFlow ==
    [pc |-> "returned", child |-> 0, run |-> 0,
     params |-> [roundOneReply |-> FALSE, waitForCompletion |-> FALSE,
                 label |-> FALSE, cleanup |-> "keep", planMode |-> FALSE],
     reply |-> FALSE, didAnnounce |-> FALSE, queued |-> "unset",
     parent |-> NoParent, settled |-> "false"]

\* one call of the gateway as the gateway sees it
GatewayCall(method, ok, key, f, via) ==
    [method |-> method, ok |-> ok, idempotencyKey |-> key, child |-> f.child,
     run |-> f.run, via |-> via]

AnnounceIdle ==
    /\ announceFlow = NoAnnounceFlow
    /\ gatewayCalls = <<>>
    /\ announceQueue = <<>>
    /\ steeredMessages = <<>>
    /\ randomUUID = 1

\* the caller starts the flow for the next completed child; gatewayCalls and
\* steeredMessages go on as the record of that child's announcement
RunSubagentAnnounceFlow ==
    /\ announceFlow.pc = "returned"
    /\ announceFlow.run < MaxAnnounceRuns
    /\ announceFlow.run > 0 => announceFlow.settled = "true"
    /\ \E p \in AnnounceParams :
          announceFlow' =
              runSubagentAnnounceFlow(announceFlow.child + 1, announceFlow.run + 1, p)
    /\ gatewayCalls' = <<>>
    /\ steeredMessages' = <<>>
    /\ UNCHANGED <<announceQueue, randomUUID>>
    /\ UNCHANGED notAnnounceVars

\* after an invocation that returned false the caller starts the flow again
\* for the same child, with the same parameters
RetryAnnounce ==
    /\ announceFlow.pc = "returned"
    /\ announceFlow.run < MaxAnnounceRuns
    /\ announceFlow.run > 0
    /\ announceFlow.settled = "false"
    /\ announceFlow' =
          runSubagentAnnounceFlow(announceFlow.child, announceFlow.run + 1,
                                  announceFlow.params)
    /\ UNCHANGED <<gatewayCalls, announceQueue, steeredMessages, randomUUID>>
    /\ UNCHANGED notAnnounceVars

AgentWait ==
    /\ announceFlow.pc = "agent.wait"
    /\ \E ok \in BOOLEAN :
          /\ gatewayCalls' = Append(gatewayCalls,
                                    GatewayCall("agent.wait", ok, 0, announceFlow, "flow"))
          /\ announceFlow' = IF ok
                             THEN [announceFlow EXCEPT !.pc = "readLatestAssistantReply.wait"]
                             ELSE catchBlock(announceFlow)
    /\ UNCHANGED <<announceQueue, steeredMessages, randomUUID>>
    /\ UNCHANGED notAnnounceVars

\* readLatestAssistantReply after agent.wait, and once more when no reply
\* is known by then
ReadLatestAssistantReply ==
    /\ announceFlow.pc \in {"readLatestAssistantReply.wait", "readLatestAssistantReply"}
    /\ \E outcome \in {"reply", "none", "failed"} :
          announceFlow' =
             IF outcome = "failed" THEN catchBlock(announceFlow)
             ELSE IF announceFlow.pc = "readLatestAssistantReply.wait"
                  THEN afterReply([announceFlow EXCEPT !.reply = (outcome = "reply")])
             ELSE [announceFlow EXCEPT !.reply = (outcome = "reply"), !.pc = "route"]
    /\ UNCHANGED <<gatewayCalls, announceQueue, steeredMessages, randomUUID>>
    /\ UNCHANGED notAnnounceVars

\* the message is built and maybeQueueSubagentAnnounce routes it
MaybeQueueSubagentAnnounce ==
    /\ announceFlow.pc = "route"
    /\ \E p \in ParentStates :
          LET queued == maybeQueueSubagentAnnounce(p)
              f == [announceFlow EXCEPT !.queued = queued, !.parent = p]
          IN  /\ steeredMessages' =
                    IF queued = "steered"
                    THEN Append(steeredMessages, [child |-> f.child, run |-> f.run])
                    ELSE steeredMessages
              /\ announceQueue' =
                    IF queued = "queued"
                    THEN Append(announceQueue, [child |-> f.child, run |-> f.run])
                    ELSE announceQueue
              /\ announceFlow' =
                    IF queued \in {"steered", "queued"}
                    THEN finallyBlock([f EXCEPT !.didAnnounce = TRUE])
                    ELSE [f EXCEPT !.pc = "agent"]
    /\ UNCHANGED <<gatewayCalls, randomUUID>>
    /\ UNCHANGED notAnnounceVars

\* the direct send to the parent session
AgentDirect ==
    /\ announceFlow.pc = "agent"
    /\ \E ok \in BOOLEAN :
          /\ gatewayCalls' = Append(gatewayCalls,
                                    GatewayCall("agent", ok, randomUUID, announceFlow, "direct"))
          /\ announceFlow' = IF ok
                             THEN finallyBlock([announceFlow EXCEPT !.didAnnounce = TRUE])
                             ELSE catchBlock(announceFlow)
    /\ randomUUID' = randomUUID + 1
    /\ UNCHANGED <<announceQueue, steeredMessages>>
    /\ UNCHANGED notAnnounceVars

SessionsPatch ==
    /\ announceFlow.pc = "sessions.patch"
    /\ \E ok \in BOOLEAN :
          gatewayCalls' = Append(gatewayCalls,
                                 GatewayCall("sessions.patch", ok, 0, announceFlow, "flow"))
    /\ announceFlow' = afterSessionsPatch(announceFlow)
    /\ UNCHANGED <<announceQueue, steeredMessages, randomUUID>>
    /\ UNCHANGED notAnnounceVars

SessionsDelete ==
    /\ announceFlow.pc = "sessions.delete"
    /\ \E ok \in BOOLEAN :
          gatewayCalls' = Append(gatewayCalls,
                                 GatewayCall("sessions.delete", ok, 0, announceFlow, "flow"))
    /\ announceFlow' = [announceFlow EXCEPT
                           !.pc = "returned",
                           !.settled = IF announceFlow.didAnnounce THEN "true" ELSE "false"]
    /\ UNCHANGED <<announceQueue, steeredMessages, randomUUID>>
    /\ UNCHANGED notAnnounceVars

\* the announce queue sends its first item with sendAnnounce
SendAnnounce ==
    /\ announceQueue # <<>>
    /\ \E ok \in BOOLEAN :
          gatewayCalls' = Append(gatewayCalls,
                                 GatewayCall("agent", ok, randomUUID, Head(announceQueue), "queue"))
    /\ announceQueue' = Tail(announceQueue)
    /\ randomUUID' = randomUUID + 1
    /\ UNCHANGED <<announceFlow, steeredMessages>>
    /\ UNCHANGED notAnnounceVars

NextAnnounce ==
    \/ RunSubagentAnnounceFlow
    \/ RetryAnnounce
    \/ AgentWait
    \/ ReadLatestAssistantReply
    \/ MaybeQueueSubagentAnnounce
    \/ AgentDirect
    \/ SessionsPatch
    \/ SessionsDelete
    \/ SendAnnounce

(***************************************************************************)
(* parseCliStreamJsonl on the stream of one turn: an assistant line, a     *)
(* user line and a result line.  A line is the JSON value it holds; text,  *)
(* result content and session id are sequences of one-character strings.   *)
(***************************************************************************)
MaxStreamTextLen == 2
MaxStreamToolUses == 2
MaxStreamToolResults == 2

\* a number that is undefined (left out of the JSON object)
Absent == 0 - 1

StreamTexts == SeqsUpTo({" ", "x"}, MaxStreamTextLen)

\* tool uses as the CLI may write them: complete, without id, without name
StreamToolUses ==
    { [id |-> "a", name |-> "ExitPlanMode", question |-> ""],
      [id |-> "", name |-> "ExitPlanMode", question |-> ""],
      [id |-> "a", name |-> "", question |-> ""] }

\* the content of a tool result: a string, or an array of text blocks
StringContent == [kind |-> "string", text |-> <<"c">>, blocks |-> <<>>]

ArrayContent == [kind |-> "array", text |-> <<>>, blocks |-> << <<"c">>, <<"d">> >>]

StreamToolResults ==
    { [toolUseId |-> "a", content |-> ArrayContent, isError |-> FALSE],
      [toolUseId |-> "a", content |-> StringContent, isError |-> TRUE],
      [toolUseId |-> "", content |-> StringContent, isError |-> FALSE],
      [toolUseId |-> "", content |-> ArrayContent, isError |-> TRUE] }

NoUsage == [defined |-> FALSE, input |-> Absent, output |-> Absent]

StreamUsages ==
    { NoUsage,
      [defined |-> TRUE, input |-> 5, output |-> 7],
      [defined |-> TRUE, input |-> 0, output |-> 7] }

NoSessionId == [defined |-> FALSE, value |-> <<>>]

StreamSessionIds ==
    { NoSessionId,
      [defined |-> TRUE, value |-> <<"s">>],
      [defined |-> TRUE, value |-> <<" ", "s">>] }

StreamSources ==
    [text : StreamTexts,
     toolUses : SeqsUpTo(StreamToolUses, MaxStreamToolUses),
     toolResults : SeqsUpTo(StreamToolResults, MaxStreamToolResults),
     usage : StreamUsages,
     sessionId : StreamSessionIds]

NoContent == [kind |-> "string", text |-> <<>>, blocks |-> <<>>]

\* a content block of a message
Block(type, text, id, name, toolUseId, content, isError) ==
    [type |-> type, text |-> text, id |-> id, name |-> name,
     tool_use_id |-> toolUseId, content |-> content, is_error |-> isError]

\* a line of the stream
Line(type, sessionId, content, usage, result) ==
    [type |-> type, session_id |-> sessionId, content |-> content,
     usage |-> usage, result |-> result]

\* the three lines of one turn, as the CLI writes them
toStreamJsonl(src) ==
    << Line("assistant", src.sessionId,
            << Block("text", src.text, "", "", "", NoContent, FALSE) >>
              \o [i \in 1..Len(src.toolUses) |->
                    Block("tool_use", <<>>, src.toolUses[i].id, src.toolUses[i].name,
                          "", NoContent, FALSE)],
            NoUsage, <<>>),
       Line("user", NoSessionId,
            [i \in 1..Len(src.toolResults) |->
                Block("tool_result", <<>>, "", "", src.toolResults[i].toolUseId,
                      src.toolResults[i].content, src.toolResults[i].isError)],
            NoUsage, <<>>),
       Line("result", NoSessionId, <<>>, src.usage, src.text) >>

\* texts.join("")
RECURSIVE joinTexts(_)
joinTexts(texts) ==
    IF texts = <<>> THEN <<>> ELSE Head(texts) \o joinTexts(Tail(texts))

\* a variant of extractToolResultText that takes the first block of an array
extractToolResultTextFirstBlock(content) ==
    IF content.kind = "string" THEN content.text
    ELSE IF content.blocks = <<>> THEN <<>> ELSE Head(content.blocks)

extractToolResultText(content) ==
    IF content.kind = "string" THEN content.text ELSE joinTexts(content.blocks)

toUsage(raw) ==
    LET pick(v) == IF v # Absent /\ v > 0 THEN v ELSE Absent
    IN  IF pick(raw.input) = Absent /\ pick(raw.output) = Absent
        THEN NoUsage
        ELSE [defined |-> TRUE, input |-> pick(raw.input), output |-> pick(raw.output)]

pickSessionId(line) ==
    IF line.session_id.defined /\ Trim(line.session_id.value) # <<>>
    THEN [defined |-> TRUE, value |-> Trim(line.session_id.value)]
    ELSE NoSessionId

\* the blocks of an assistant message: text and tool_use
RECURSIVE assistantBlocks(_, _)
assistantBlocks(st, content) ==
    IF content = <<>> THEN st
    ELSE LET block == Head(content)
             st1 == IF block.type = "text"
                    THEN [st EXCEPT !.texts = Append(@, block.text)]
                    ELSE st
             st2 == IF block.type = "tool_use" /\ block.id # "" /\ block.name # ""
                    THEN [st1 EXCEPT !.toolUses =
                             Append(@, [id |-> block.id, name |-> block.name,
                                        question |-> ""])]
                    ELSE st1
         IN  assistantBlocks(st2, Tail(content))

\* the blocks of a user message: tool_result
RECURSIVE userBlocks(_, _)
userBlocks(st, content) ==
    IF content = <<>> THEN st
    ELSE LET block == Head(content)
             st1 == IF block.type = "tool_result" /\ block.tool_use_id # ""
                    THEN [st EXCEPT !.toolResults =
                             Append(@, [toolUseId |-> block.tool_use_id,
                                        content |-> extractToolResultText(block.content),
                                        isError |-> block.is_error])]
                    ELSE st
         IN  userBlocks(st1, Tail(content))

\* one turn of the loop over the lines
parseLine(st, line) ==
    LET truthy(sid) == sid.defined /\ sid.value # <<>>
        sid1 == IF ~ truthy(st.sessionId) /\ line.session_id.defined
                THEN [defined |-> TRUE, value |-> Trim(line.session_id.value)]
                ELSE st.sessionId
        sid2 == IF ~ truthy(sid1) THEN pickSessionId(line) ELSE sid1
        s == [st EXCEPT !.sessionId = sid2]
    IN  IF line.type = "result" /\ line.usage.defined
        THEN [s EXCEPT !.usage = IF toUsage(line.usage).defined
                                 THEN toUsage(line.usage) ELSE @,
                       !.texts = IF Trim(line.result) # <<>> /\ s.texts = <<>>
                                 THEN <<Trim(line.result)>> ELSE @]
        ELSE IF line.type = "assistant" THEN assistantBlocks(s, line.content)
        ELSE IF line.type = "user" THEN userBlocks(s, line.content)
        ELSE s

RECURSIVE parseLines(_, _)
parseLines(st, lines) ==
    IF lines = <<>> THEN st ELSE parseLines(parseLine(st, Head(lines)), Tail(lines))

NotParsedStream ==
    [parsed |-> FALSE, text |-> <<>>, sessionId |-> NoSessionId, usage |-> NoUsage,
     toolUses |-> <<>>, toolResults |-> <<>>,
     pendingInteraction |-> NoDetectedInteraction]

parseCliStreamJsonl(lines) ==
    LET st == parseLines([sessionId |-> NoSessionId, usage |-> NoUsage,
                          toolUses |-> <<>>, toolResults |-> <<>>, texts |-> <<>>],
                         lines)
    IN  [parsed |-> TRUE,
         text |-> Trim(joinTexts(st.texts)),
         sessionId |-> st.sessionId,
         usage |-> st.usage,
         toolUses |-> st.toolUses,
         toolResults |-> st.toolResults,
         pendingInteraction |->
            detectPendingInteraction(
                st.toolUses,
                [i \in 1..Len(st.toolResults) |-> st.toolResults[i].toolUseId])]

NoStreamSource ==
    [text |-> <<>>, toolUses |-> <<>>, toolResults |-> <<>>, usage |-> NoUsage,
     sessionId |-> NoSessionId]

StreamIdle ==
    /\ streamSource = NoStreamSource
    /\ streamOutput = NotParsedStream

\* the CLI has written the lines of a turn
StreamWritten ==
    /\ streamSource \in StreamSources
    /\ streamOutput = NotParsedStream

ParseStreamJsonl ==
    /\ ~ streamOutput.parsed
    /\ streamOutput' = parseCliStreamJsonl(toStreamJsonl(streamSource))
    /\ UNCHANGED streamSource
    /\ UNCHANGED notStreamVars

NextStream == ParseStreamJsonl

(***************************************************************************)
(* The queued task of runCliAgent up to the start of the CLI: the cleanup  *)
(* of suspended processes, the cleanup of stale resume processes, the CLI  *)
(* command.  A command path is the sequence of its segments; a session id  *)
(* is a sequence of one-character strings.                                 *)
(***************************************************************************)
Platforms == {"posix", "win32"}

CliCommands == { <<>>, <<"codex">>, <<"bin", "codex">> }

ResumeArgSets == { <<>>, <<"resume">>, <<"resume", "{sessionId}">> }

SessionArgs == {"", "--session"}

SessionModes == {"always", "existing", "none"}

CliSessionIds == { <<>>, <<"t">>, <<" ">> }

\* the session id crypto.randomUUID() gives to a new session
NewCliSessionId == <<"u">>

CliBackends ==
    [command : CliCommands, resumeArgs : ResumeArgSets, sessionArg : SessionArgs,
     sessionMode : SessionModes]

\* path.basename(backend.command ?? "").trim()
commandTokenOf(backend) ==
    IF backend.command = <<>> THEN "" ELSE backend.command[Len(backend.command)]

hasSessionIdPlaceholder(args) == \E i \in DOMAIN args : args[i] = "{sessionId}"

resolveSessionIdToSend(backend, cliSessionId) ==
    LET existing == Trim(cliSessionId)
    IN  IF backend.sessionMode = "none" THEN <<>>
        ELSE IF backend.sessionMode = "existing" THEN existing
        ELSE IF existing # <<>> THEN existing
        ELSE NewCliSessionId

useResumeOf(backend, cliSessionId) ==
    /\ cliSessionId # <<>>
    /\ resolveSessionIdToSend(backend, cliSessionId) # <<>>
    /\ backend.resumeArgs # <<>>

\* the patterns cleanupSuspendedCliProcesses looks for
buildSessionMatchers(backend) ==
    IF commandTokenOf(backend) = "" THEN {}
    ELSE (IF backend.sessionArg # "" THEN {"sessionArg"} ELSE {})
           \cup (IF hasSessionIdPlaceholder(backend.resumeArgs) THEN {"resumeArgs"} ELSE {})

NoPattern == <<>>

\* a variant of the pattern of cleanupResumeProcesses that does not ask for
\* the placeholder
resumePatternAnyResumeArgs(platform, backend, sessionId) ==
    IF platform = "win32" \/ commandTokenOf(backend) = "" THEN NoPattern
    ELSE << commandTokenOf(backend) >> \o backend.resumeArgs

\* the pattern cleanupResumeProcesses hands to pkill -f, as the list of the
\* tokens it joins with ".*"; NoPattern when it returns without a pkill
resumePattern(platform, backend, sessionId) ==
    IF platform = "win32" THEN NoPattern
    ELSE IF backend.resumeArgs = <<>> THEN NoPattern
    ELSE IF ~ hasSessionIdPlaceholder(backend.resumeArgs) THEN NoPattern
    ELSE IF commandTokenOf(backend) = "" THEN NoPattern
    ELSE << commandTokenOf(backend) >>
           \o [i \in DOMAIN backend.resumeArgs |->
                 IF backend.resumeArgs[i] = "{sessionId}" THEN sessionId
                 ELSE backend.resumeArgs[i]]

\* one call of runExec or runCommandWithTimeout
Exec(command, pattern, ok) == [command |-> command, pattern |-> pattern, ok |-> ok]

\* the task after cleanupSuspendedCliProcesses: cleanupResumeProcesses when
\* the run resumes, the CLI otherwise
afterCleanupSuspended(run) ==
    IF /\ useResumeOf(run.backend, run.cliSessionId)
       /\ resolveSessionIdToSend(run.backend, run.cliSessionId) # <<>>
       /\ resumePattern(run.platform, run.backend,
                        resolveSessionIdToSend(run.backend, run.cliSessionId)) # NoPattern
    THEN [run EXCEPT !.pc = "pkill"]
    ELSE [run EXCEPT !.pc = "cli"]

\* the start of the queued task: cleanupSuspendedCliProcesses
taskStarts(run) ==
    IF run.platform = "win32" \/ buildSessionMatchers(run.backend) = {}
    THEN afterCleanupSuspended(run)
    ELSE [run EXCEPT !.pc = "ps"]

NoCliAgentRun ==
    [pc |-> "none", platform |-> "posix", cliSessionId |-> <<>>,
     backend |-> [command |-> <<>>, resumeArgs |-> <<>>, sessionArg |-> "",
                  sessionMode |-> "always"],
     result |-> "pending"]

RunnerIdle ==
    /\ cliAgentRun = NoCliAgentRun
    /\ execCalls = <<>>

\* runCliAgent has put its task on the run queue
RunnerQueued ==
    /\ \E platform \in Platforms, backend \in CliBackends, id \in CliSessionIds :
          cliAgentRun = [pc |-> "queued", platform |-> platform, cliSessionId |-> id,
                         backend |-> backend, result |-> "pending"]
    /\ execCalls = <<>>

CliTaskStarts ==
    /\ cliAgentRun.pc = "queued"
    /\ cliAgentRun' = taskStarts(cliAgentRun)
    /\ UNCHANGED execCalls
    /\ UNCHANGED notRunnerVars

\* runExec("ps", ...) of cleanupSuspendedCliProcesses: it fails, or lists at
\* most threshold suspended processes ("few"), or more ("many")
PsReturns ==
    /\ cliAgentRun.pc = "ps"
    /\ \E outcome \in {"failed", "few", "many"} :
          /\ execCalls' = Append(execCalls, Exec("ps", NoPattern, outcome # "failed"))
          /\ cliAgentRun' = IF outcome = "many"
                            THEN [cliAgentRun EXCEPT !.pc = "kill"]
                            ELSE afterCleanupSuspended(cliAgentRun)
    /\ UNCHANGED notRunnerVars

\* runExec("kill", ["-9", ...]) of cleanupSuspendedCliProcesses
KillReturns ==
    /\ cliAgentRun.pc = "kill"
    /\ \E ok \in BOOLEAN : execCalls' = Append(execCalls, Exec("kill", NoPattern, ok))
    /\ cliAgentRun' = afterCleanupSuspended(cliAgentRun)
    /\ UNCHANGED notRunnerVars

\* runExec("pkill", ["-f", pattern]) of cleanupResumeProcesses
PkillReturns ==
    /\ cliAgentRun.pc = "pkill"
    /\ \E ok \in BOOLEAN :
          execCalls' =
             Append(execCalls,
                    Exec("pkill",
                         resumePattern(cliAgentRun.platform, cliAgentRun.backend,
                                       resolveSessionIdToSend(cliAgentRun.backend,
                                                              cliAgentRun.cliSessionId)),
                         ok))
    /\ cliAgentRun' = [cliAgentRun EXCEPT !.pc = "cli"]
    /\ UNCHANGED notRunnerVars

\* runCommandWithTimeout starts the CLI; the run fails when the CLI does
CliReturns ==
    /\ cliAgentRun.pc = "cli"
    /\ \E ok \in BOOLEAN :
          /\ execCalls' = Append(execCalls, Exec("cli", NoPattern, ok))
          /\ cliAgentRun' = [cliAgentRun EXCEPT
                                !.pc = "done",
                                !.result = IF ok THEN "ok" ELSE "failed"]
    /\ UNCHANGED notRunnerVars

NextRunner ==
    \/ CliTaskStarts
    \/ PsReturns
    \/ KillReturns
    \/ PkillReturns
    \/ CliReturns

(***************************************************************************)
(* The session transcript writer: the stream-jsonl branch of runCliAgent   *)
(* after parseCliStreamJsonl returned an output, writeCliEventsToSession   *)
(* and ensureSessionHeader.  appendedMessages are the messages handed to   *)
(* sessionManager.appendMessage, in the order of the calls.                *)
(***************************************************************************)
MaxWriterToolUses == 2
MaxWriterToolResults == 2

\* tool uses of the stream: two ids, one of them used by two tools
WriterToolUses ==
    { [id |-> "a", name |-> "Read", input |-> "{}"],
      [id |-> "a", name |-> "Edit", input |-> "{}"],
      [id |-> "b", name |-> "Edit", input |-> "{}"] }

\* tool results of the stream: for a tool use of the stream or for none
WriterToolResults ==
    { [toolUseId |-> "a", content |-> "out", isError |-> FALSE],
      [toolUseId |-> "a", content |-> "", isError |-> TRUE],
      [toolUseId |-> "c", content |-> "out", isError |-> FALSE] }

WriterUsages ==
    { [defined |-> FALSE, input |-> 0, output |-> 0, cacheRead |-> 0,
       cacheWrite |-> 0, total |-> 0],
      [defined |-> TRUE, input |-> 3, output |-> 4, cacheRead |-> 1,
       cacheWrite |-> 2, total |-> 7] }

\* the outputs of parseCliStreamJsonl handed to the writer
WriterSeqs(S, n) == UNION { [1..k -> S] : k \in 0..n }

CliStreamJsonlOutputs ==
    [text : {"", "done"},
     sessionId : {"", "sid"},
     usage : WriterUsages,
     toolUses : WriterSeqs(WriterToolUses, MaxWriterToolUses),
     toolResults : WriterSeqs(WriterToolResults, MaxWriterToolResults),
     pendingInteraction : {"none", "plan_approval"}]

\* Date.now() at the time of the write
WriterTimes == {1700, 1800}

\* toolIdToName.get(id) ?? "unknown": the name of the last tool use with the id
RECURSIVE toolNameOf(_, _)
toolNameOf(uses, id) ==
    IF uses = <<>> THEN "unknown"
    ELSE IF uses[Len(uses)].id = id THEN uses[Len(uses)].name
    ELSE toolNameOf(SubSeq(uses, 1, Len(uses) - 1), id)

\* assistantContent: a toolCall block for each tool use, then the text
assistantContent(events) ==
    [i \in 1..Len(events.toolUses) |->
        [type |-> "toolCall", id |-> events.toolUses[i].id,
         name |-> events.toolUses[i].name,
         arguments |-> events.toolUses[i].input, text |-> ""]]
    \o (IF events.text # ""
        THEN << [type |-> "text", id |-> "", name |-> "", arguments |-> "",
                 text |-> events.text] >>
        ELSE <<>>)

assistantMessage(events, timestamp) ==
    [role |-> "assistant",
     content |-> assistantContent(events),
     usage |-> [input |-> events.usage.input, output |-> events.usage.output,
                cacheRead |-> events.usage.cacheRead,
                cacheWrite |-> events.usage.cacheWrite,
                totalTokens |-> events.usage.total],
     stopReason |-> IF Len(events.toolUses) > 0 THEN "toolUse" ELSE "stop",
     toolCallId |-> "", toolName |-> "", isError |-> FALSE,
     timestamp |-> timestamp]

toolResultMessage(events, toolResult, timestamp) ==
    [role |-> "toolResult",
     content |-> << [type |-> "text", id |-> "", name |-> "", arguments |-> "",
                     text |-> toolResult.content] >>,
     usage |-> [input |-> 0, output |-> 0, cacheRead |-> 0, cacheWrite |-> 0,
                totalTokens |-> 0],
     stopReason |-> "",
     toolCallId |-> toolResult.toolUseId,
     toolName |-> toolNameOf(events.toolUses, toolResult.toolUseId),
     isError |-> toolResult.isError,
     timestamp |-> timestamp + 1]

\* A variant of appendMessageCalls that writes the tool results first.
appendMessageCallsResultsFirst(events, timestamp) ==
    [i \in 1..Len(events.toolResults) |->
        toolResultMessage(events, events.toolResults[i], timestamp)]
    \o (IF Len(assistantContent(events)) > 0
        THEN << assistantMessage(events, timestamp) >> ELSE <<>>)

\* the appendMessage calls of one write, in order
appendMessageCalls(events, timestamp) ==
    (IF Len(assistantContent(events)) > 0
     THEN << assistantMessage(events, timestamp) >> ELSE <<>>)
    \o [i \in 1..Len(events.toolResults) |->
          toolResultMessage(events, events.toolResults[i], timestamp)]

\* A variant of the catch block that passes the error on to runCliAgent.
writeFailedRethrows(w) == [w EXCEPT !.pc = "rejected", !.threw = TRUE]

\* the catch block of writeCliEventsToSession: log.warn, nothing else
writeFailed(w) == [w EXCEPT !.pc = "written", !.threw = TRUE]

\* what the stream-jsonl branch returns
streamJsonlReturn(events) ==
    [text |-> events.text, sessionId |-> events.sessionId,
     usage |-> events.usage, pendingInteraction |-> events.pendingInteraction]

NoCliOutput ==
    [text |-> "", sessionId |-> "",
     usage |-> [defined |-> FALSE, input |-> 0, output |-> 0, cacheRead |-> 0,
                cacheWrite |-> 0, total |-> 0],
     toolUses |-> <<>>, toolResults |-> <<>>, pendingInteraction |-> "none"]

NoWriteCall ==
    [pc |-> "idle", sessionFile |-> FALSE, called |-> FALSE, threw |-> FALSE,
     output |-> streamJsonlReturn(NoCliOutput)]

WriterIdle ==
    /\ parsedOutput = NoCliOutput
    /\ writeCall = NoWriteCall
    /\ sessionFileExists = FALSE
    /\ appendedMessages = <<>>
    /\ transcriptUpdates = 0

\* parseCliStreamJsonl has returned `parsed`; params.sessionFile is given or
\* not, and the file is there or not
WriterParsed ==
    /\ parsedOutput \in CliStreamJsonlOutputs
    /\ \E given \in BOOLEAN :
          writeCall = [NoWriteCall EXCEPT !.pc = "parsed", !.sessionFile = given]
    /\ sessionFileExists \in BOOLEAN
    /\ writeCall.sessionFile = FALSE => sessionFileExists = FALSE
    /\ appendedMessages = <<>>
    /\ transcriptUpdates = 0

\* the guard of runCliAgent, the call and the guard of writeCliEventsToSession;
\* without a call the branch returns at once
WriteCliEventsToSession ==
    /\ writeCall.pc = "parsed"
    /\ writeCall' =
          IF writeCall.sessionFile
             /\ (Len(parsedOutput.toolUses) > 0 \/ Len(parsedOutput.toolResults) > 0)
          THEN IF Len(parsedOutput.toolUses) = 0 /\ Len(parsedOutput.toolResults) = 0
               THEN [writeCall EXCEPT !.pc = "written", !.called = TRUE]
               ELSE [writeCall EXCEPT !.pc = "ensureSessionHeader", !.called = TRUE]
          ELSE [writeCall EXCEPT !.pc = "returned",
                                 !.output = streamJsonlReturn(parsedOutput)]
    /\ UNCHANGED <<parsedOutput, sessionFileExists, appendedMessages, transcriptUpdates>>
    /\ UNCHANGED notWriterVars

\* ensureSessionHeader: nothing for a file that exists, else mkdir and
\* writeFile, either of which may reject
EnsureSessionHeader ==
    /\ writeCall.pc = "ensureSessionHeader"
    /\ IF sessionFileExists
       THEN /\ writeCall' = [writeCall EXCEPT !.pc = "append"]
            /\ UNCHANGED sessionFileExists
       ELSE \E ok \in BOOLEAN :
               /\ sessionFileExists' = ok
               /\ writeCall' = IF ok THEN [writeCall EXCEPT !.pc = "append"]
                               ELSE writeFailed(writeCall)
    /\ UNCHANGED <<parsedOutput, appendedMessages, transcriptUpdates>>
    /\ UNCHANGED notWriterVars

\* SessionManager.open, Date.now(), the appendMessage calls and
\* emitSessionTranscriptUpdate: the first n calls return, and with n short
\* of all of them SessionManager.open or the next appendMessage throws
AppendMessages ==
    /\ writeCall.pc = "append"
    /\ \E timestamp \in WriterTimes :
          LET calls == appendMessageCalls(parsedOutput, timestamp)
          IN  \E n \in 0..Len(calls) :
                 /\ appendedMessages' = appendedMessages \o SubSeq(calls, 1, n)
                 /\ IF n = Len(calls)
                    THEN /\ transcriptUpdates' = transcriptUpdates + 1
                         /\ writeCall' = [writeCall EXCEPT !.pc = "written"]
                    ELSE /\ UNCHANGED transcriptUpdates
                         /\ writeCall' = writeFailed(writeCall)
    /\ UNCHANGED <<parsedOutput, sessionFileExists>>
    /\ UNCHANGED notWriterVars

\* runCliAgent goes on after `await writeCliEventsToSession(...)`
ReturnParsed ==
    /\ writeCall.pc = "written"
    /\ writeCall' = [writeCall EXCEPT !.pc = "returned",
                                      !.output = streamJsonlReturn(parsedOutput)]
    /\ UNCHANGED <<parsedOutput, sessionFileExists, appendedMessages, transcriptUpdates>>
    /\ UNCHANGED notWriterVars

NextWriter ==
    \/ WriteCliEventsToSession
    \/ EnsureSessionHeader
    \/ AppendMessages
    \/ ReturnParsed

(***************************************************************************)
(* Specifications: one component runs, the other stays as constructed.     *)
(***************************************************************************)
\* the components that only one specification runs, as they are constructed
OthersIdle ==
    /\ QueueConstructed
    /\ InteractionsConstructed
    /\ ParserIdle
    /\ QuoteIdle
    /\ AnswerIdle
    /\ AnnounceIdle
    /\ StreamIdle
    /\ RunnerIdle
    /\ WriterIdle

InitManager == ManagerConstructed /\ TypingConstructed(DefaultParams) /\ OthersIdle

SpecManager == InitManager /\ [][NextManager]_vars

InitTyping ==
    /\ ManagerConstructed
    /\ \E p \in ParamSets : TypingConstructed(p)
    /\ OthersIdle

SpecTyping == InitTyping /\ [][NextTyping]_vars

InitQueue == InitManager

SpecQueue == InitQueue /\ [][NextQueue]_vars

InitInteractions == InitManager

SpecInteractions == InitInteractions /\ [][NextInteractions]_vars

InitParser ==
    /\ ManagerConstructed /\ TypingConstructed(DefaultParams)
    /\ QueueConstructed /\ InteractionsConstructed
    /\ RunnerIdle /\ StreamIdle /\ AnnounceIdle /\ QuoteIdle /\ AnswerIdle
    /\ WriterIdle
    /\ ParserCollected

SpecParser == InitParser /\ [][NextParser]_vars

InitQuote ==
    /\ ManagerConstructed /\ TypingConstructed(DefaultParams)
    /\ QueueConstructed /\ InteractionsConstructed
    /\ RunnerIdle /\ StreamIdle /\ AnnounceIdle /\ ParserIdle /\ AnswerIdle
    /\ WriterIdle
    /\ QuoteCalled

SpecQuote == InitQuote /\ [][NextQuote]_vars

InitAnswer ==
    /\ ManagerConstructed /\ TypingConstructed(DefaultParams)
    /\ QueueConstructed /\ InteractionsConstructed
    /\ RunnerIdle /\ StreamIdle /\ AnnounceIdle /\ ParserIdle /\ QuoteIdle
    /\ WriterIdle
    /\ AnswerAsked

SpecAnswer == InitAnswer /\ [][NextAnswer]_vars

InitAnnounce == InitManager

SpecAnnounce == InitAnnounce /\ [][NextAnnounce]_vars

InitStream ==
    /\ ManagerConstructed /\ TypingConstructed(DefaultParams)
    /\ QueueConstructed /\ InteractionsConstructed /\ AnnounceIdle /\ RunnerIdle
    /\ ParserIdle /\ QuoteIdle /\ AnswerIdle
    /\ WriterIdle
    /\ StreamWritten

SpecStream == InitStream /\ [][NextStream]_vars

InitRunner ==
    /\ ManagerConstructed /\ TypingConstructed(DefaultParams)
    /\ QueueConstructed /\ InteractionsConstructed /\ AnnounceIdle /\ StreamIdle
    /\ ParserIdle /\ QuoteIdle /\ AnswerIdle
    /\ WriterIdle
    /\ RunnerQueued

SpecRunner == InitRunner /\ [][NextRunner]_vars

InitWriter ==
    /\ ManagerConstructed /\ TypingConstructed(DefaultParams)
    /\ QueueConstructed /\ InteractionsConstructed /\ AnnounceIdle /\ StreamIdle
    /\ ParserIdle /\ QuoteIdle /\ AnswerIdle /\ RunnerIdle
    /\ WriterParsed

SpecWriter == InitWriter /\ [][NextWriter]_vars

(***************************************************************************)
(* Properties of the typing controller.                                    *)
(***************************************************************************)
\* C9: once markRunComplete and markDispatchIdle have both been called, in
\* either order, no step invokes the external onReplyStart callback: no later
\* call, no call resumed after its await and no timer tick.
C9_NoReplyStartAfterMarks ==
    [][ (markedRun /\ markedIdle) => "onReplyStart" \notin fired' ]_vars

\* C9 witness: the marks arrived while a startTypingLoop call was suspended,
\* the call went on to install its interval, and the interval has ticked
C9_LateTimerTick ==
    /\ markedRun /\ markedIdle
    /\ params.hasOnReplyStart
    /\ typingTimer
    /\ call.op = "typingTimer"

\* the calls that C10 names
SealedMutators ==
    {"ensureStart", "startTypingLoop", "startTypingOnText", "refreshTypingTtl",
     "cleanup"}

\* C10: sealed, once true, stays true; a call of ensureStart, startTypingLoop,
\* startTypingOnText, refreshTypingTtl or cleanup made while sealed changes
\* nothing and invokes nothing; isActive() is false while sealed; and no step
\* taken while sealed invokes onReplyStart.
C10_SealAbsorbing ==
    [][ sealed =>
          /\ sealed'
          /\ ~ isActive(TypingState) /\ ~ isActive(TypingState')
          /\ "onReplyStart" \notin fired'
          /\ call'.op \in SealedMutators =>
                /\ fired' = {}
                /\ UNCHANGED <<started, active, runComplete, dispatchIdle,
                               typingStartedAt, typingTimeoutReminderTimer,
                               typingTimer, typingTtlTimer, ttlPending,
                               orphanTimers, awaiting>> ]_vars

\* C10 witness: a mutator was called on a sealed controller that still has a
\* callback to invoke
C10_CalledWhenSealed ==
    /\ sealed /\ call.sealed
    /\ call.op = "startTypingOnText"
    /\ params.hasOnReplyStart

LiveTypingIntervals == (IF typingTimer THEN 1 ELSE 0) + orphanTimers

\* C29: for every number and interleaving of startTypingLoop and
\* startTypingOnText calls, also calls made while an earlier call awaits
\* onReplyStart, at most one periodic typing interval exists at any time.
C29_AtMostOneTypingInterval == LiveTypingIntervals <= 1

\* C30: in every reachable state in which sealed is true, the periodic typing
\* timer, the TTL timer and the reminder timer are all stopped, whatever the
\* interleaving of cleanup with in-flight startTypingLoop / startTypingOnText
\* calls and timer callbacks.
C30_NoLiveTimerAfterSeal ==
    sealed => /\ LiveTypingIntervals = 0
              /\ ~ typingTtlTimer
              /\ ~ typingTimeoutReminderTimer

\* C31: onTypingTimeout is invoked only while the controller is not sealed
\* and the run is not complete: once markRunComplete has been called or the
\* controller is sealed, no step invokes onTypingTimeout.
C31_NoTimeoutCallAfterRunComplete ==
    [][("onTypingTimeout" \in fired') => (~ sealed /\ ~ markedRun)]_vars

(***************************************************************************)
(* Properties of the run queue.                                            *)
(***************************************************************************)
Executing(i) == cliRuns[i].status = "running"

Settled(i) == cliRuns[i].status \in {"fulfilled", "rejected"}

BackendOf(id) == CHOOSE backend \in Backends : backend.id = id

\* C11: no two tasks enqueued under the same queueKey are executing at the
\* same time; and the key of a backend whose serialize is true or unset is
\* its id, so no two runs of such a backend are executing at the same time.
C11_MutualExclusion ==
    \A i, j \in 1..Len(cliRuns) :
        (i # j /\ Executing(i) /\ Executing(j)) =>
            /\ cliRuns[i].key # cliRuns[j].key
            /\ (cliRuns[i].backend = cliRuns[j].backend
                   => ~ serializeOf(BackendOf(cliRuns[i].backend)))

\* two runs of a serializing backend with different run ids, one executing
\* and the other waiting for it
C11_SecondRunWaits ==
    \E i, j \in 1..Len(cliRuns) :
        /\ i < j
        /\ cliRuns[i].backend = cliRuns[j].backend
        /\ serializeOf(BackendOf(cliRuns[i].backend))
        /\ cliRuns[i].key = cliRuns[j].key
        /\ Executing(i)
        /\ cliRuns[j].status = "queued"

\* C12: tasks of one queueKey start in the order of their enqueueCliRun
\* calls: a task that has started has every earlier-enqueued task of its key
\* settled.
C12_FifoPerKey ==
    \A i, j \in 1..Len(cliRuns) :
        (i < j /\ cliRuns[i].key = cliRuns[j].key /\ cliRuns[j].status # "queued")
            => Settled(i)

\* three tasks of one key: the first two have settled in order, the second
\* was enqueued before the first one's finally callback ran, and the third
\* has started
C12_ThirdStartedInOrder ==
    /\ Len(cliRuns) = 3
    /\ \A i \in 1..3 : cliRuns[i].key = cliRuns[1].key
    /\ cliRuns[2].prior = 1
    /\ cliRuns[3].prior = 2
    /\ Settled(1) /\ Settled(2)
    /\ Executing(3)

\* the tasks enqueued under a key
TasksOf(runs, key) == { j \in 1..Len(runs) : runs[j].key = key }

\* C33: the entry of a key is deleted from CLI_RUN_QUEUE only by the finally
\* callback of a settled task that the entry holds and that is the last task
\* enqueued under the key; while a task of a key is queued or running the map
\* holds the key, with the last task enqueued under it; and once the finally
\* callback of every task of a key has run the map holds no entry for it.
C33_QueueMapBookkeeping ==
    [][/\ \A key \in DOMAIN CLI_RUN_QUEUE :
             key \notin DOMAIN CLI_RUN_QUEUE'
             => LET i == CLI_RUN_QUEUE[key]
                IN  /\ Settled(i)
                    /\ ~ cliRuns[i].finallyRan /\ cliRuns'[i].finallyRan
                    /\ cliRuns[i].key = key
                    /\ \A j \in TasksOf(cliRuns, key) : j <= i
       /\ \A j \in 1..Len(cliRuns') :
             cliRuns'[j].status \in {"queued", "running"}
             => /\ cliRuns'[j].key \in DOMAIN CLI_RUN_QUEUE'
                /\ \A i \in TasksOf(cliRuns', cliRuns'[j].key) :
                      i <= CLI_RUN_QUEUE'[cliRuns'[j].key]
                /\ cliRuns'[CLI_RUN_QUEUE'[cliRuns'[j].key]].key = cliRuns'[j].key
       /\ \A j \in 1..Len(cliRuns') :
             (\A i \in TasksOf(cliRuns', cliRuns'[j].key) : cliRuns'[i].finallyRan)
             => cliRuns'[j].key \notin DOMAIN CLI_RUN_QUEUE'
      ]_queueVars

\* the finally callback of the first task of a key ran while a second task
\* of the key was waiting, and left the entry, which holds the second task
C33_EntryKeptForLaterTask ==
    \E i, j \in 1..Len(cliRuns) :
        /\ i < j
        /\ cliRuns[i].key = cliRuns[j].key
        /\ cliRuns[i].finallyRan
        /\ cliRuns[j].status \in {"queued", "running"}
        /\ CLI_RUN_QUEUE[cliRuns[j].key] = j

\* C13: the rejection of a task is delivered to that task's own caller only:
\* no promise of the queue rejects without a handler, and a task whose
\* predecessor rejected is not left waiting once the predecessor's chain
\* has settled for lack of a start.
C13_FailureIsolation ==
    /\ unhandled = {}
    /\ \A j \in 1..Len(cliRuns) :
          (cliRuns[j].prior # 0 /\ cliRuns[cliRuns[j].prior].tracked = "rejected")
              => ENABLED TaskStarts(j) \/ cliRuns[j].status # "queued"

(***************************************************************************)
(* Properties of the parser's pending interaction.                         *)
(***************************************************************************)
InteractiveNames == {"AskUserQuestion", "ExitPlanMode"}

\* C16: the parser yields one value, none or one detected interaction, and a
\* detected interaction carries the id of a tool use named AskUserQuestion
\* or ExitPlanMode whose id is the toolUseId of no tool result.
C16_PendingTiedToUnanswered ==
    pendingInteraction.parsed =>
        LET detected == pendingInteraction.detected
        IN  /\ detected.type \in {"none", "ask_user_question", "plan_approval"}
            /\ detected.type # "none" =>
                  \E i \in 1..Len(toolUses) :
                      /\ toolUses[i].id = detected.toolCallId
                      /\ toolUses[i].name \in InteractiveNames
                      /\ \A k \in 1..Len(toolResults) :
                            toolResults[k] # toolUses[i].id

\* the last interactive tool use has its result, an earlier one has none, and
\* the earlier one is detected
C16_EarlierUnansweredDetected ==
    /\ pendingInteraction.parsed
    /\ Len(toolUses) = 2
    /\ toolUses[1].name \in InteractiveNames
    /\ toolUses[2].name = "ExitPlanMode"
    /\ toolUses[1].id # toolUses[2].id
    /\ \E k \in 1..Len(toolResults) : toolResults[k] = toolUses[2].id
    /\ pendingInteraction.detected.type # "none"
    /\ pendingInteraction.detected.toolCallId = toolUses[1].id

Unanswered == { i \in 1..Len(toolUses) :
                  \A k \in 1..Len(toolResults) : toolResults[k] # toolUses[i].id }

\* the unanswered tool uses at which detectPendingInteraction returns
UnansweredInteractive ==
    { i \in Unanswered :
        \/ toolUses[i].name = "ExitPlanMode"
        \/ toolUses[i].name = "AskUserQuestion" /\ toolUses[i].question # "" }

MaxOf(S) == CHOOSE i \in S : \A j \in S : j <= i

\* C27: the highest-indexed tool use without a result alone decides: named
\* AskUserQuestion it yields an ask_user_question interaction, named
\* ExitPlanMode a plan_approval interaction, and with any other name, or with
\* no unanswered tool use, no interaction.
C27_LastUnansweredDecides ==
    pendingInteraction.parsed =>
        LET detected == pendingInteraction.detected
        IN  IF Unanswered = {} THEN detected.type = "none"
            ELSE IF toolUses[MaxOf(Unanswered)].name = "AskUserQuestion"
            THEN /\ detected.type = "ask_user_question"
                 /\ detected.toolCallId = toolUses[MaxOf(Unanswered)].id
            ELSE IF toolUses[MaxOf(Unanswered)].name = "ExitPlanMode"
            THEN /\ detected.type = "plan_approval"
                 /\ detected.toolCallId = toolUses[MaxOf(Unanswered)].id
            ELSE detected.type = "none"

\* C27, amended: the highest-indexed tool use that has no result and is an
\* ExitPlanMode or an AskUserQuestion with a non-empty first question decides:
\* it yields a plan_approval, respectively an ask_user_question, with its id
\* and question; unanswered tool uses of other kinds after it are passed
\* over; with no such tool use there is no interaction.
C27_LastUnansweredInteractiveDecides ==
    pendingInteraction.parsed =>
        LET detected == pendingInteraction.detected
        IN  IF UnansweredInteractive = {} THEN detected = NoDetectedInteraction
            ELSE LET use == toolUses[MaxOf(UnansweredInteractive)]
                 IN  /\ detected.toolCallId = use.id
                     /\ detected.type = IF use.name = "ExitPlanMode"
                                        THEN "plan_approval"
                                        ELSE "ask_user_question"
                     /\ detected.question = IF use.name = "ExitPlanMode"
                                            THEN PLAN_APPROVAL_QUESTION
                                            ELSE use.question

\* an unanswered Bash call follows an unanswered AskUserQuestion, and the
\* question is detected
C27_PassedOverOtherTool ==
    /\ pendingInteraction.parsed
    /\ Len(toolUses) = 2
    /\ Unanswered = {1, 2}
    /\ toolUses[1].name = "AskUserQuestion"
    /\ toolUses[2].name = "Bash"
    /\ pendingInteraction.detected.type = "ask_user_question"

(***************************************************************************)
(* Properties of the sandbox command line.  The shell's reading of a       *)
(* payload: inside single quotes every character is literal up to the next *)
(* quote; outside, a backslash makes the next character literal, a space   *)
(* ends a word, and ; is an operator.                                      *)
(***************************************************************************)
\* what the reading yields when the payload is not one simple command
ShNotArgv == << <<"#">> >>

RECURSIVE shWords(_, _, _, _, _)
shWords(s, inQuote, cur, inWord, words) ==
    IF s = <<>>
    THEN IF inQuote THEN ShNotArgv
         ELSE IF inWord THEN Append(words, cur) ELSE words
    ELSE IF inQuote
    THEN IF Head(s) = "'" THEN shWords(Tail(s), FALSE, cur, TRUE, words)
         ELSE shWords(Tail(s), TRUE, Append(cur, Head(s)), TRUE, words)
    ELSE IF Head(s) = "'" THEN shWords(Tail(s), TRUE, cur, TRUE, words)
    ELSE IF Head(s) = "\\"
    THEN IF Tail(s) = <<>> THEN ShNotArgv
         ELSE shWords(Tail(Tail(s)), FALSE, Append(cur, s[2]), TRUE, words)
    ELSE IF Head(s) = " "
    THEN shWords(Tail(s), FALSE, <<>>, FALSE,
                 IF inWord THEN Append(words, cur) ELSE words)
    ELSE IF Head(s) = ";" THEN ShNotArgv
    ELSE shWords(Tail(s), FALSE, Append(cur, Head(s)), TRUE, words)

shArgv(payload) == shWords(payload, FALSE, <<>>, FALSE, <<>>)

\* the characters of the payload that stand outside single-quoted regions
RECURSIVE unquotedText(_, _)
unquotedText(s, inQuote) ==
    IF s = <<>> THEN <<>>
    ELSE IF Head(s) = "'" THEN unquotedText(Tail(s), ~ inQuote)
    ELSE IF inQuote THEN unquotedText(Tail(s), TRUE)
    ELSE IF Head(s) = "\\" /\ Tail(s) # <<>>
    THEN <<"\\", s[2]>> \o unquotedText(Tail(Tail(s)), FALSE)
    ELSE <<Head(s)>> \o unquotedText(Tail(s), FALSE)

\* only joining spaces and backslash-quote pairs
OnlySpacesAndEscapedQuotes(text) ==
    \A i \in 1..Len(text) :
        \/ text[i] = " "
        \/ text[i] = "\\" /\ i < Len(text) /\ text[i + 1] = "'"
        \/ text[i] = "'" /\ i > 1 /\ text[i - 1] = "\\"

SpacesIn(text) == Cardinality({ i \in 1..Len(text) : text[i] = " " })

\* C17: the sh -lc payload is the command and the arguments, each in single
\* quotes with every embedded quote written as '\'', joined by single spaces:
\* outside the single-quoted regions it holds only the joining spaces and the
\* escaped quotes of that replacement, and the shell reads it back as exactly
\* the original argv.
C17_SandboxShellQuoting ==
    cliCommand # NotBuilt =>
        LET payload == cliCommand[3]
            text == unquotedText(payload, FALSE)
        IN  /\ cliCommand[1] = "sh" /\ cliCommand[2] = "-lc"
            /\ Head(payload) = "'" /\ payload[Len(payload)] = "'"
            /\ OnlySpacesAndEscapedQuotes(text)
            /\ SpacesIn(text) = Len(cliArgv) - 1
            /\ shArgv(payload) = cliArgv

\* a command line whose argument holds a quote and a shell operator
C17_QuoteAndOperatorInArg ==
    /\ cliCommand # NotBuilt
    /\ Len(cliArgv) = 2
    /\ cliArgv[2] = <<"'", ";">>
    /\ shArgv(cliCommand[3]) = cliArgv

(***************************************************************************)
(* Properties of the answer parser.                                        *)
(***************************************************************************)
\* C18: parseUserAnswer applied to the answer it returned, with the same
\* options and the same multiSelect flag, returns that answer again.
C18_AnswerParsingIdempotent ==
    Len(answers) = 2 => answers[2] = answers[1]

(***************************************************************************)
(* Properties of the pending interactions.                                 *)
(***************************************************************************)
StoredFor(store, sessionKey) ==
    { k \in DOMAIN store : store[k].sessionKey = sessionKey }

\* C19: after every call the store holds at most one interaction per
\* sessionKey; setPendingInteraction makes the new interaction the one of its
\* sessionKey, whatever the key held before, so that a later get cannot
\* return the earlier one, and leaves the entries of all other keys as they
\* were.
C19_OnePerSession ==
    [][/\ \A k \in InteractionKeys :
             Cardinality(StoredFor(pendingInteractions', k)) <= 1
       /\ got'.op = "set" =>
             /\ pendingInteractions'[got'.key] = got'.result
             /\ getPendingInteractionResult(pendingInteractions', got'.key, clock').id
                   \in {0, got'.result.id}
             /\ \A k \in InteractionKeys \ {got'.key} :
                   /\ (k \in DOMAIN pendingInteractions')
                         = (k \in DOMAIN pendingInteractions)
                   /\ k \in DOMAIN pendingInteractions
                         => pendingInteractions'[k] = pendingInteractions[k]
      ]_interactionVars

\* setPendingInteraction has replaced the interaction of a session while
\* another session has one
C19_Replaced ==
    /\ got.op = "set"
    /\ got.held # 0
    /\ got.held # got.result.id
    /\ \E k \in DOMAIN pendingInteractions : k # got.key

\* C20: getPendingInteraction(key) returns the stored interaction and leaves
\* the store alone when the key has one and now <= expiresAt; when the key
\* has one and now > expiresAt it deletes that entry and returns none; when
\* the key has none it returns none; so no interaction is returned after its
\* expiresAt, and the key stays without an entry until the next set.
C20_ExpiredNeverReturned ==
    [][got'.op = "get" =>
          IF got'.key \in DOMAIN pendingInteractions
          THEN IF clock <= pendingInteractions[got'.key].expiresAt
               THEN /\ got'.result = pendingInteractions[got'.key]
                    /\ pendingInteractions' = pendingInteractions
               ELSE /\ got'.result = NoInteraction
                    /\ pendingInteractions'
                          = MapDelete(pendingInteractions, got'.key)
          ELSE /\ got'.result = NoInteraction
               /\ pendingInteractions' = pendingInteractions
      ]_interactionVars

\* getPendingInteraction found an expired interaction and returned none
C20_ExpiredDropped ==
    /\ got.op = "get"
    /\ got.held # 0
    /\ got.result = NoInteraction
    /\ got.key \notin DOMAIN pendingInteractions

(***************************************************************************)
(* Properties of the announce flow.                                        *)
(***************************************************************************)
\* the gateway calls that invocation r of the flow made itself
FlowCalls(r) ==
    {i \in DOMAIN gatewayCalls :
        gatewayCalls[i].run = r /\ gatewayCalls[i].via # "queue"}

AnnounceReturned == announceFlow.run > 0 /\ announceFlow.pc = "returned"

\* C21: runSubagentAnnounceFlow never rejects: a failed agent.wait, agent,
\* sessions.patch or sessions.delete call is swallowed; an invocation whose
\* agent.wait or agent call failed returns false; and sessions.delete is
\* attempted whenever cleanup is "delete", also after a failed
\* sessions.patch.
C21_AnnounceBestEffort ==
    /\ announceFlow.settled # "rejected"
    /\ AnnounceReturned =>
          LET calls == FlowCalls(announceFlow.run)
          IN  /\ (\E i \in calls :
                     /\ gatewayCalls[i].method \in {"agent.wait", "agent"}
                     /\ ~ gatewayCalls[i].ok)
                   => announceFlow.settled = "false"
              /\ announceFlow.params.cleanup = "delete"
                   => \E i \in calls : gatewayCalls[i].method = "sessions.delete"
              /\ \A i \in calls :
                    (/\ gatewayCalls[i].method = "sessions.patch"
                     /\ announceFlow.params.cleanup = "delete")
                      => \E j \in calls :
                            j > i /\ gatewayCalls[j].method = "sessions.delete"

\* an invocation whose direct send and whose sessions.patch both failed has
\* gone on to sessions.delete and has returned false
C21_DeleteAfterFailedPatch ==
    /\ AnnounceReturned
    /\ announceFlow.settled = "false"
    /\ \E i, j, k \in FlowCalls(announceFlow.run) :
          /\ i < j /\ j < k
          /\ gatewayCalls[i].method = "agent" /\ ~ gatewayCalls[i].ok
          /\ gatewayCalls[j].method = "sessions.patch" /\ ~ gatewayCalls[j].ok
          /\ gatewayCalls[k].method = "sessions.delete"

\* the deliveries of invocation r by each of the three paths
SteeredBy(r) == {i \in DOMAIN steeredMessages : steeredMessages[i].run = r}

QueuedBy(r) ==
    {<<"waiting", i>> : i \in {k \in DOMAIN announceQueue : announceQueue[k].run = r}}
      \cup
    {<<"sent", i>> : i \in {k \in DOMAIN gatewayCalls :
                                gatewayCalls[k].run = r /\ gatewayCalls[k].via = "queue"}}

DirectBy(r) ==
    {i \in DOMAIN gatewayCalls :
        /\ gatewayCalls[i].run = r
        /\ gatewayCalls[i].method = "agent"
        /\ gatewayCalls[i].via = "direct"}

C23_SameIdempotencyKey ==
    \A i, j \in DOMAIN gatewayCalls :
        (/\ gatewayCalls[i].method = "agent"
         /\ gatewayCalls[j].method = "agent"
         /\ gatewayCalls[i].child = gatewayCalls[j].child)
          => gatewayCalls[i].idempotencyKey = gatewayCalls[j].idempotencyKey

\* C34: sessions.delete is called for a child only when the flow was started
\* with cleanup = "delete" and without planMode; with planMode no
\* sessions.delete call is made, whatever the cleanup value.
C34_PlanModeChildKept ==
    \A i \in DOMAIN gatewayCalls :
        gatewayCalls[i].method = "sessions.delete"
          => /\ announceFlow.params.cleanup = "delete"
             /\ ~ announceFlow.params.planMode

\* C35: sessions.patch and sessions.delete are called only after the
\* announcement of the invocation was delivered (steered, queued or sent),
\* sessions.patch before sessions.delete; an invocation whose delivery
\* failed deletes nothing.
C35_CleanupAfterDelivery ==
    [][(/\ Len(gatewayCalls') = Len(gatewayCalls) + 1
        /\ gatewayCalls'[Len(gatewayCalls')].method
              \in {"sessions.patch", "sessions.delete"})
          => /\ announceFlow.didAnnounce
             /\ gatewayCalls'[Len(gatewayCalls')].method = "sessions.patch"
                   => \A i \in DOMAIN gatewayCalls :
                         ~ (/\ gatewayCalls[i].method = "sessions.delete"
                            /\ gatewayCalls[i].run = announceFlow.run)]_announceVars

(***************************************************************************)
(* Properties of the stream-jsonl round trip.                              *)
(***************************************************************************)
\* the text fields of the first n blocks of an array content, in order
RECURSIVE ConcatUpTo(_, _)
ConcatUpTo(blocks, n) ==
    IF n = 0 THEN <<>> ELSE ConcatUpTo(blocks, n - 1) \o blocks[n]

Flattened(content) ==
    IF content.kind = "string" THEN content.text
    ELSE ConcatUpTo(content.blocks, Len(content.blocks))

\* the tool results a round trip is to recover from the written ones
FlattenedResults(results) ==
    [i \in 1..Len(results) |->
        [toolUseId |-> results[i].toolUseId,
         content |-> Flattened(results[i].content),
         isError |-> results[i].isError]]

\* C25: parsing the stream made of an assistant line (text and tool_use
\* blocks), a user line (tool_result blocks) and a result line recovers
\* exactly the text, the tool uses in order, the tool results in order with
\* array content flattened and isError preserved, the usage and the session
\* id, for every such input.
C25_StreamRoundTrip ==
    streamOutput.parsed =>
        /\ streamOutput.text = streamSource.text
        /\ streamOutput.toolUses = streamSource.toolUses
        /\ streamOutput.toolResults = FlattenedResults(streamSource.toolResults)
        /\ streamOutput.usage = streamSource.usage
        /\ streamOutput.sessionId = streamSource.sessionId

HasIdAndName(toolUse) == toolUse.id # "" /\ toolUse.name # ""

HasToolUseId(toolResult) == toolResult.toolUseId # ""

PositiveOrAbsent(n) == IF n > 0 THEN n ELSE Absent

\* C25, amended: the parse recovers the text trimmed, the tool uses that
\* have an id and a name, in order, the tool results that have a toolUseId,
\* in order, with array content flattened and isError preserved, the usage
\* with every count that is not positive left undefined (no usage when none
\* is positive), and the session id trimmed (none when it is blank); so the
\* round trip is exact for inputs that are already of that form.
C25_StreamRoundTripNormalised ==
    streamOutput.parsed =>
        /\ streamOutput.text = Trim(streamSource.text)
        /\ streamOutput.toolUses = SelectSeq(streamSource.toolUses, HasIdAndName)
        /\ streamOutput.toolResults =
              FlattenedResults(SelectSeq(streamSource.toolResults, HasToolUseId))
        /\ streamOutput.usage =
              (IF /\ PositiveOrAbsent(streamSource.usage.input) = Absent
                  /\ PositiveOrAbsent(streamSource.usage.output) = Absent
               THEN NoUsage
               ELSE [defined |-> TRUE,
                     input |-> PositiveOrAbsent(streamSource.usage.input),
                     output |-> PositiveOrAbsent(streamSource.usage.output)])
        /\ streamOutput.sessionId =
              (IF Trim(streamSource.sessionId.value) = <<>> THEN NoSessionId
               ELSE [defined |-> TRUE, value |-> Trim(streamSource.sessionId.value)])

\* a padded text came back trimmed, next to two tool uses and an array-form
\* result that came back flattened
C25_TrimmedAndFlattened ==
    /\ streamOutput.parsed
    /\ streamSource.text = <<" ", "x">>
    /\ streamOutput.text = <<"x">>
    /\ Len(streamOutput.toolUses) = 2
    /\ \E i \in DOMAIN streamOutput.toolResults :
          /\ streamSource.toolResults[i].content.kind = "array"
          /\ streamOutput.toolResults[i].content = <<"c", "d">>

(***************************************************************************)
(* Properties of the cleanup before a CLI run.                             *)
(***************************************************************************)
ExecsOf(command) == {i \in DOMAIN execCalls : execCalls[i].command = command}

CleanupOver == cliAgentRun.pc \in {"cli", "done"}

\* suspended-process cleanup, then the kill of resume processes, then the CLI
CleanupThenCli ==
    /\ \A i \in ExecsOf("cli") :
          \A j \in ExecsOf("ps") \cup ExecsOf("kill") \cup ExecsOf("pkill") : j < i
    /\ \A i \in ExecsOf("pkill") :
          \A j \in ExecsOf("ps") \cup ExecsOf("kill") : j < i

\* a finished run has started the CLI, and it failed only if the CLI did
CleanupNeverFailsRun ==
    cliAgentRun.pc = "done" =>
        /\ Cardinality(ExecsOf("cli")) = 1
        /\ cliAgentRun.result = "failed" <=> \E i \in ExecsOf("cli") : ~ execCalls[i].ok

Substituted(args, sessionId) ==
    [i \in DOMAIN args |-> IF args[i] = "{sessionId}" THEN sessionId ELSE args[i]]

\* C26: on POSIX the suspended-process cleanup runs first, then, exactly
\* when cliSessionId is set and the backend has resumeArgs, the kill of
\* the processes matching the command and the resumeArgs with that session
\* id substituted, and only then the CLI; a failed cleanup step never fails
\* the run.
C26_CleanupPrecedesExecution ==
    cliAgentRun.platform = "posix" =>
        /\ CleanupThenCli
        /\ CleanupNeverFailsRun
        /\ CleanupOver =>
              (ExecsOf("pkill") # {}
                 <=> (cliAgentRun.cliSessionId # <<>>
                        /\ cliAgentRun.backend.resumeArgs # <<>>))
        /\ \A i \in ExecsOf("pkill") :
              execCalls[i].pattern =
                 << cliAgentRun.backend.command[Len(cliAgentRun.backend.command)] >>
                   \o Substituted(cliAgentRun.backend.resumeArgs, cliAgentRun.cliSessionId)

\* the session id the run sends to the CLI: the trimmed cliSessionId, a new
\* id for a blank one in session mode always, none in session mode none
SessionIdSent ==
    LET existing == Trim(cliAgentRun.cliSessionId)
    IN  IF cliAgentRun.backend.sessionMode = "none" THEN <<>>
        ELSE IF existing # <<>> THEN existing
        ELSE IF cliAgentRun.backend.sessionMode = "always" THEN NewCliSessionId
        ELSE <<>>

\* C26, amended: on POSIX the suspended-process cleanup runs first, then,
\* exactly when cliSessionId is set, the session mode gives a session id to
\* send, the resumeArgs contain the placeholder {sessionId} and the command
\* has a base name, the kill of the processes matching that base name and
\* the resumeArgs with the sent session id substituted, and only then the
\* CLI; a failed cleanup step never fails the run.  On win32 no cleanup
\* command is run.
C26_CleanupPrecedesExecutionOfResume ==
    /\ CleanupThenCli
    /\ CleanupNeverFailsRun
    /\ CleanupOver =>
          (ExecsOf("pkill") # {}
             <=> (/\ cliAgentRun.platform = "posix"
                  /\ cliAgentRun.cliSessionId # <<>>
                  /\ SessionIdSent # <<>>
                  /\ hasSessionIdPlaceholder(cliAgentRun.backend.resumeArgs)
                  /\ cliAgentRun.backend.command # <<>>))
    /\ \A i \in ExecsOf("pkill") :
          execCalls[i].pattern =
             << cliAgentRun.backend.command[Len(cliAgentRun.backend.command)] >>
               \o Substituted(cliAgentRun.backend.resumeArgs, SessionIdSent)
    /\ cliAgentRun.platform = "win32" =>
          ExecsOf("ps") \cup ExecsOf("kill") \cup ExecsOf("pkill") = {}

\* a resumed run whose ps and pkill both failed has run the CLI and succeeded
C26_RunSurvivesFailedCleanups ==
    /\ cliAgentRun.pc = "done"
    /\ cliAgentRun.result = "ok"
    /\ \E i \in ExecsOf("ps"), j \in ExecsOf("pkill"), k \in ExecsOf("cli") :
          /\ i < j /\ j < k
          /\ ~ execCalls[i].ok
          /\ ~ execCalls[j].ok

(***************************************************************************)
(* Properties of the session transcript writer.                            *)
(***************************************************************************)
\* the message holds the tool uses of the output as toolCall blocks, in
\* order, then the text if there is one
HoldsToolUsesThenText(message) ==
    LET uses == parsedOutput.toolUses
        content == message.content
    IN  /\ Len(content) = Len(uses) + (IF parsedOutput.text # "" THEN 1 ELSE 0)
        /\ \A i \in 1..Len(uses) :
              /\ content[i].type = "toolCall"
              /\ content[i].id = uses[i].id
              /\ content[i].name = uses[i].name
              /\ content[i].arguments = uses[i].input
        /\ parsedOutput.text # ""
              => /\ content[Len(content)].type = "text"
                 /\ content[Len(content)].text = parsedOutput.text
        /\ (message.stopReason = "toolUse") = (Len(uses) >= 1)
        /\ message.stopReason \in {"toolUse", "stop"}

\* the message is the toolResult record of the k-th tool result
IsToolResultOf(message, k) ==
    LET toolResult == parsedOutput.toolResults[k]
    IN  /\ message.role = "toolResult"
        /\ message.toolCallId = toolResult.toolUseId
        /\ message.isError = toolResult.isError
        /\ Len(message.content) = 1
        /\ message.content[1].type = "text"
        /\ message.content[1].text = toolResult.content

WriteOver == writeCall.pc \in {"written", "returned"} /\ ~ writeCall.threw

\* C36: a run with tool events whose write did not fail has appended exactly
\* one assistant record, first, holding all tool uses in parser order and
\* then the text, with stopReason "toolUse" iff there is a tool use, and
\* after it one toolResult record per tool result in parser order, each with
\* a timestamp greater than the assistant record's; a run without tool
\* events appends nothing.
C36_TranscriptRecordOrder ==
    WriteOver =>
        IF writeCall.called
        THEN /\ Len(appendedMessages) = 1 + Len(parsedOutput.toolResults)
             /\ appendedMessages[1].role = "assistant"
             /\ HoldsToolUsesThenText(appendedMessages[1])
             /\ \A k \in 1..Len(parsedOutput.toolResults) :
                   /\ IsToolResultOf(appendedMessages[1 + k], k)
                   /\ appendedMessages[1 + k].timestamp
                         > appendedMessages[1].timestamp
        ELSE appendedMessages = <<>>

\* C36, amended: the assistant record is appended when the output has a tool
\* use or a text, and then it is the first record, holds all tool uses in
\* parser order and then the text, and has stopReason "toolUse" iff there is
\* a tool use; an output with tool results and neither tool use nor text
\* gets no assistant record.  The toolResult records follow, one per tool
\* result in parser order, with a timestamp greater than the assistant
\* record's.  A write that fails has appended a prefix of these records; a
\* run without tool events or without session file appends nothing.
C36_TranscriptRecordOrderWhenContent ==
    LET hasAssistant == Len(parsedOutput.toolUses) > 0 \/ parsedOutput.text # ""
        first == IF hasAssistant THEN 1 ELSE 0
    IN  /\ ~ writeCall.called => appendedMessages = <<>>
        /\ Len(appendedMessages) <= first + Len(parsedOutput.toolResults)
        /\ (WriteOver /\ writeCall.called)
              => Len(appendedMessages) = first + Len(parsedOutput.toolResults)
        /\ (hasAssistant /\ Len(appendedMessages) >= 1)
              => /\ appendedMessages[1].role = "assistant"
                 /\ HoldsToolUsesThenText(appendedMessages[1])
        /\ \A i \in (first + 1)..Len(appendedMessages) :
              /\ IsToolResultOf(appendedMessages[i], i - first)
              /\ hasAssistant
                    => appendedMessages[i].timestamp > appendedMessages[1].timestamp
              /\ appendedMessages[i].timestamp = appendedMessages[first + 1].timestamp

\* two tool uses, a text and two tool results were written: three records
C36_AssistantThenToolResults ==
    /\ WriteOver /\ writeCall.called
    /\ Len(parsedOutput.toolUses) = 2
    /\ parsedOutput.toolUses[1] # parsedOutput.toolUses[2]
    /\ parsedOutput.text # ""
    /\ Len(parsedOutput.toolResults) = 2
    /\ parsedOutput.toolResults[1] # parsedOutput.toolResults[2]
    /\ Len(appendedMessages) = 3

\* C37: no failure of ensureSessionHeader, SessionManager.open or
\* appendMessage reaches runCliAgent: the stream-jsonl branch never rejects
\* because of the writer, and what it returns is the text, sessionId, usage
\* and pendingInteraction of the parsed output, whether the write succeeded,
\* failed or was not attempted.
C37_WriteNeverFailsRun ==
    /\ writeCall.pc # "rejected"
    /\ writeCall.pc = "returned"
          => /\ writeCall.output.text = parsedOutput.text
             /\ writeCall.output.sessionId = parsedOutput.sessionId
             /\ writeCall.output.usage = parsedOutput.usage
             /\ writeCall.output.pendingInteraction = parsedOutput.pendingInteraction

\* appendMessage threw after the assistant record, and the run returned its
\* output
C37_ReturnedAfterFailedWrite ==
    /\ writeCall.pc = "returned"
    /\ writeCall.threw
    /\ Len(appendedMessages) = 1
    /\ Len(parsedOutput.toolResults) = 2
    /\ writeCall.output.text = "done"
    /\ writeCall.output.usage.defined
    /\ writeCall.output.pendingInteraction = "plan_approval"

====
